---------------------------- MODULE Spec2Model ----------------------------
(***************************************************************************)
(* The direct fixture consumer of execution-spec-tests: the geth `evm`     *)
(* wrappers (GethFixtureConsumer, GethStatetest, GethBlocktest, GethEvm),  *)
(* the FixtureConsumer base class and the Geth exception table.            *)
(*                                                                         *)
(* Texts (help output, stdout, stderr, exception messages) are sequences   *)
(* of tokens; a command line is a sequence of arguments.                   *)
(***************************************************************************)
EXTENDS Integers, Sequences, FiniteSets, TLC

(***************************************************************************)
(* Bounds of the model.                                                    *)
(***************************************************************************)
\* Longest stdout enumerated exhaustively over JsonAlphabet.
MaxOutLen == 2
\* Largest exit code of the child process.
MaxExit == 1

(***************************************************************************)
(* Python values.                                                          *)
(***************************************************************************)
\* Python's None.
None == "<None>"

\* str(x) of an Optional[Path] / Optional[str].
Str(x) == IF x = None THEN "None" ELSE x

\* Truth value of an Optional[str]: None and "" are falsy.
Truthy(x) == x # None /\ x # ""

(***************************************************************************)
(* Text helpers.                                                           *)
(***************************************************************************)
\* `pat in text`: pat is a contiguous part of text.
Contains(text, pat) ==
    \E i \in 0..(Len(text) - Len(pat)) :
        \A j \in 1..Len(pat) : text[i + j] = pat[j]

\* " ".join(args)
RECURSIVE Join(_)
Join(args) ==
    IF args = <<>> THEN <<>>
    ELSE IF Len(args) = 1 THEN <<args[1]>>
    ELSE <<args[1], " ">> \o Join(Tail(args))

\* All sequences over S of length at most n.
SeqsUpTo(S, n) == UNION {[1..k -> S] : k \in 0..n}

(***************************************************************************)
(* json.loads: the text is a sequence of JSON tokens, the result a Python  *)
(* value <<tag, payload>>: list (its items), dict (its <<key, value>>      *)
(* pairs in insertion order), int, str and bool (their token).             *)
(***************************************************************************)
NumToks == {"1", "2"}
StrToks == {"\"name\"", "\"t1\"", "\"pass\"", "\"a/b\""}
BoolToks == {"true", "false"}

PyList(items) == <<"list", items>>
PyDict(pairs) == <<"dict", pairs>>
PyAtom(tag, tok) == <<tag, <<tok>>>>

\* d[key] = val on a dict's pairs: a repeated key keeps its place and takes
\* the new value.
DictSet(pairs, key, val) ==
    IF \E i \in 1..Len(pairs) : pairs[i][1] = key
    THEN [i \in 1..Len(pairs) |->
            IF pairs[i][1] = key THEN <<key, val>> ELSE pairs[i]]
    ELSE Append(pairs, <<key, val>>)

ParseFail == [ok |-> FALSE, val |-> <<>>, rest |-> <<>>]
ParseOk(v, r) == [ok |-> TRUE, val |-> v, rest |-> r]

RECURSIVE ParseValue(_)
RECURSIVE ParseItems(_, _)
RECURSIVE ParseMembers(_, _)

\* One JSON value at the head of toks.
ParseValue(toks) ==
    IF toks = <<>> THEN ParseFail
    ELSE LET t == Head(toks)
             r == Tail(toks)
         IN  IF t \in NumToks THEN ParseOk(PyAtom("int", t), r)
             ELSE IF t \in StrToks THEN ParseOk(PyAtom("str", t), r)
             ELSE IF t \in BoolToks THEN ParseOk(PyAtom("bool", t), r)
             ELSE IF t = "[" THEN
                 IF r # <<>> /\ Head(r) = "]"
                 THEN ParseOk(PyList(<<>>), Tail(r))
                 ELSE ParseItems(r, <<>>)
             ELSE IF t = "{" THEN
                 IF r # <<>> /\ Head(r) = "}"
                 THEN ParseOk(PyDict(<<>>), Tail(r))
                 ELSE ParseMembers(r, <<>>)
             ELSE ParseFail

\* The items of an array after "[" or ",": value ("," value)* "]".
ParseItems(toks, acc) ==
    LET v == ParseValue(toks)
    IN  IF ~v.ok \/ v.rest = <<>> THEN ParseFail
        ELSE IF Head(v.rest) = "]"
             THEN ParseOk(PyList(Append(acc, v.val)), Tail(v.rest))
        ELSE IF Head(v.rest) = ","
             THEN ParseItems(Tail(v.rest), Append(acc, v.val))
        ELSE ParseFail

\* The members of an object after "{" or ",": str ":" value ("," ...)* "}".
ParseMembers(toks, acc) ==
    IF Len(toks) < 2 \/ Head(toks) \notin StrToks \/ toks[2] # ":"
    THEN ParseFail
    ELSE LET v == ParseValue(Tail(Tail(toks)))
         IN  IF ~v.ok \/ v.rest = <<>> THEN ParseFail
             ELSE LET acc2 == DictSet(acc, Head(toks), v.val)
                  IN  IF Head(v.rest) = "}"
                      THEN ParseOk(PyDict(acc2), Tail(v.rest))
                      ELSE IF Head(v.rest) = ","
                      THEN ParseMembers(Tail(v.rest), acc2)
                      ELSE ParseFail

\* json.loads(text): the whole text must be one value (else JSONDecodeError).
json_loads(text) ==
    LET r == ParseValue(text)
    IN  IF r.ok /\ r.rest = <<>>
        THEN [ok |-> TRUE, val |-> r.val]
        ELSE [ok |-> FALSE, val |-> <<>>]

\* isinstance(v, list)
IsList(v) == v[1] = "list"

\* repr() of a parsed value, as it appears in an f-string.
StrText(tok) ==
    CASE tok = "\"name\"" -> "name"
      [] tok = "\"t1\"" -> "t1"
      [] tok = "\"pass\"" -> "pass"
      [] tok = "\"a/b\"" -> "a/b"

RECURSIVE PyRepr(_)
RECURSIVE PyReprItems(_)
RECURSIVE PyReprPairs(_)
PyRepr(v) ==
    CASE v[1] = "int" -> <<v[2][1]>>
      [] v[1] = "str" -> <<"'", StrText(v[2][1]), "'">>
      [] v[1] = "bool" -> <<IF v[2][1] = "true" THEN "True" ELSE "False">>
      [] v[1] = "list" -> <<"[">> \o PyReprItems(v[2]) \o <<"]">>
      [] v[1] = "dict" -> <<"{">> \o PyReprPairs(v[2]) \o <<"}">>

PyReprItems(items) ==
    IF items = <<>> THEN <<>>
    ELSE IF Len(items) = 1 THEN PyRepr(items[1])
    ELSE PyRepr(items[1]) \o <<", ">> \o PyReprItems(Tail(items))

PyReprPairs(pairs) ==
    IF pairs = <<>> THEN <<>>
    ELSE LET one == <<"'", StrText(pairs[1][1]), "'", ": ">>
                        \o PyRepr(pairs[1][2])
         IN  IF Len(pairs) = 1 THEN one
             ELSE one \o <<", ">> \o PyReprPairs(Tail(pairs))

(***************************************************************************)
(* The environment: what the callers pass and what a child process does.   *)
(***************************************************************************)
\* --evm-bin: unset (None) or a path.
Binaries == {None, "evm"}

\* Help output of a subcommand: with and without the --run option.
HelpTexts == {<<"USAGE:", "--json">>, <<"USAGE:", "--json", "--run">>}

StateFixture == "StateFixture"
BlockchainFixture == "BlockchainFixture"
BlockchainEngineFixture == "BlockchainEngineFixture"
EOFFixture == "EOFFixture"

\* FIXTURE_FORMATS
FixtureFormats ==
    {BlockchainFixture, BlockchainEngineFixture, EOFFixture, StateFixture}

\* Fixture files on disk and their content.
Paths == {"a.json", "b.json"}
FixtureContent(path) == IF path = "a.json" THEN "{fixture A}" ELSE "{fixture B}"

\* The fixture of a test that reads its cases from stdin is in no file of
\* the fixture directory: the test's fixture_path writes it to a file of a
\* temporary directory.
VARIABLES
    tmp,              \* the temporary directory of the test in progress
    test              \* the test in progress and its fixture_path

\* No temporary directory was made.
NoTemp == [state |-> "none", path |-> None, text |-> <<>>]

\* Whether a file is at the path, and its text.
FileExists(path) ==
    path \in Paths \/ (tmp.state = "exists" /\ path = tmp.path)
FileText(path) ==
    IF path \in Paths THEN <<FixtureContent(path)>> ELSE tmp.text

\* fixture_name: absent, empty, or a case name.
Names == {None, "", "t1"}

\* debug_output_path: absent or a directory.
DebugDirs == {"dump"}
OptDebugDirs == {None} \cup DebugDirs

JsonAlphabet == {"[", "]", ",", "1"}

\* Longer outputs: record arrays, arrays in both orders, a repeated key, an
\* object at top level, trailing text.
SampleStdouts ==
    { <<"[", "1", "]">>,
      <<"[", "1", ",", "2", "]">>,
      <<"[", "2", ",", "1", "]">>,
      <<"[", "{", "\"name\"", ":", "\"t1\"", ",", "\"pass\"", ":", "true",
        "}", "]">>,
      <<"[", "{", "\"pass\"", ":", "true", ",", "\"pass\"", ":", "false",
        "}", ",", "[", "]", "]">>,
      <<"{", "\"name\"", ":", "\"t1\"", "}">>,
      <<"true">>,
      <<"[", "1", "]", "]">>,
      <<"not", "json">> }

Stdouts == SeqsUpTo(JsonAlphabet, MaxOutLen) \cup SampleStdouts

Stderrs ==
    { <<>>,
      <<"unexpected", "state", "root">>,
      <<"intrinsic", "gas", "too", "low">> }

ExitCodes == 0..MaxExit

\* subprocess.CompletedProcess, or no process at all (started = FALSE).
NoProcess ==
    [started |-> FALSE, returncode |-> 0, stdout |-> <<>>, stderr |-> <<>>]

Completed(rc, out, err) ==
    [started |-> TRUE, returncode |-> rc, stdout |-> out, stderr |-> err]

ConsumeResults ==
    {Completed(rc, out, err) : rc \in ExitCodes, out \in Stdouts, err \in Stderrs}

HelpResults == {Completed(0, out, <<>>) : out \in HelpTexts}

(***************************************************************************)
(* Debug bundle: a directory maps each file name to a file.                *)
(***************************************************************************)
FileNames ==
    { "consume_direct_args.py", "consume_direct_returncode.txt",
      "consume_direct_stdout.txt", "consume_direct_stderr.txt",
      "consume_direct.sh", "fixtures.json" }

NoFile == [present |-> FALSE, text |-> <<>>, exec |-> FALSE]
File(text, exec) == [present |-> TRUE, text |-> text, exec |-> exec]
EmptyDir == [n \in FileNames |-> NoFile]

\* Decimal text of a natural number.
Digit(n) == <<"0", "1", "2", "3", "4", "5", "6", "7", "8", "9">>[n + 1]

RECURSIVE IntText(_)
IntText(n) == IF n < 10 THEN <<Digit(n)>> ELSE IntText(n \div 10) \o <<Digit(n % 10)>>

\* json.dump of a list of strings.
RECURSIVE JsonItems(_)
JsonItems(args) ==
    IF args = <<>> THEN <<>>
    ELSE IF Len(args) = 1 THEN <<"\"", args[1], "\"">>
    ELSE <<"\"", args[1], "\"", ",">> \o JsonItems(Tail(args))

\* "name+flags" keys of dump_files_to_directory.
KeyName(key) == IF key = "consume_direct.sh+x" THEN "consume_direct.sh" ELSE key
KeyFlags(key) == IF key = "consume_direct.sh+x" THEN "x" ELSE ""

\* dump_files_to_directory(output_path, files): every entry <<key, type,
\* contents>> is written under its name; a str verbatim, anything else as
\* JSON; the flag x makes the file executable.
RECURSIVE dump_files_to_directory(_, _)
dump_files_to_directory(dir, entries) ==
    IF entries = <<>> THEN dir
    ELSE LET e == Head(entries)
             text == CASE e[2] = "str" -> e[3]
                       [] e[2] = "int" -> IntText(e[3])
                       [] e[2] = "list" -> <<"[">> \o JsonItems(e[3]) \o <<"]">>
             written == [dir EXCEPT ![KeyName(e[1])] =
                            File(text, KeyFlags(e[1]) = "x")]
         IN  dump_files_to_directory(written, Tail(entries))

\* debug_output_path / "fixtures.json"
DebugFixturePath(debug_output_path) == "dump/fixtures.json"

\* shutil.copyfile(src, dst) into the bundle directory; nothing is written
\* when there is no file at src (FileNotFoundError).
CopyFixture(dir, fixture_path) ==
    IF FileExists(fixture_path)
    THEN [dir EXCEPT !["fixtures.json"] = File(FileText(fixture_path), FALSE)]
    ELSE dir

\* A dump that writes stdout and stderr into each other's file.
consume_debug_dump_Swapped(dir, command, result, fixture_path, debug_output_path) ==
    CopyFixture(
        dump_files_to_directory(dir,
            << <<"consume_direct_args.py", "list", command>>,
               <<"consume_direct_returncode.txt", "int", result.returncode>>,
               <<"consume_direct_stdout.txt", "str", result.stderr>>,
               <<"consume_direct_stderr.txt", "str", result.stdout>>,
               <<"consume_direct.sh+x", "str",
                 <<"#!/bin/bash", "\n">>
                    \o Join(SubSeq(command, 1, Len(command) - 1))
                    \o <<" ", DebugFixturePath(debug_output_path), "\n">> >> >>),
        fixture_path)

\* A dump whose script repeats the spawned command, original fixture path
\* included.
consume_debug_dump_FullCommand(dir, command, result, fixture_path, debug_output_path) ==
    CopyFixture(
        dump_files_to_directory(dir,
            << <<"consume_direct_args.py", "list", command>>,
               <<"consume_direct_returncode.txt", "int", result.returncode>>,
               <<"consume_direct_stdout.txt", "str", result.stdout>>,
               <<"consume_direct_stderr.txt", "str", result.stderr>>,
               <<"consume_direct.sh+x", "str",
                 <<"#!/bin/bash", "\n">> \o Join(command) \o <<"\n">> >> >>),
        fixture_path)

\* GethEvm._consume_debug_dump
consume_debug_dump(dir, command, result, fixture_path, debug_output_path) ==
    LET debug_fixture_path == DebugFixturePath(debug_output_path)
        consume_direct_call ==
            Join(SubSeq(command, 1, Len(command) - 1))
                \o <<" ", debug_fixture_path>>
        consume_direct_script ==
            <<"#!/bin/bash", "\n">> \o consume_direct_call \o <<"\n">>
        dumped ==
            dump_files_to_directory(dir,
                << <<"consume_direct_args.py", "list", command>>,
                   <<"consume_direct_returncode.txt", "int", result.returncode>>,
                   <<"consume_direct_stdout.txt", "str", result.stdout>>,
                   <<"consume_direct_stderr.txt", "str", result.stderr>>,
                   <<"consume_direct.sh+x", "str", consume_direct_script>> >>)
    IN  CopyFixture(dumped, fixture_path)

(***************************************************************************)
(* Command lines.                                                          *)
(***************************************************************************)
DebugFlags == <<"--debug", "--json", "--verbosity", "100">>

\* A state-test command with the fixture path ahead of the debug flags.
StatetestCommand_PathBeforeFlags(binary, fixture_path, debug_output_path) ==
    <<Str(binary), "statetest", Str(fixture_path)>>
        \o (IF debug_output_path # None THEN DebugFlags ELSE <<>>)

\* A state-test command with the debug flags after the subcommand.
StatetestCommand_FlagsAfterSubcommand(binary, fixture_path, debug_output_path) ==
    <<Str(binary), "statetest">>
        \o (IF debug_output_path # None THEN DebugFlags ELSE <<>>)
        \o <<Str(fixture_path)>>

\* A state-test command that always carries the debug flags.
StatetestCommand_AlwaysDebug(binary, fixture_path, debug_output_path) ==
    <<Str(binary)>> \o DebugFlags \o <<"statetest", Str(fixture_path)>>

\* GethStatetest.consume, the command
StatetestCommand(binary, fixture_path, debug_output_path) ==
    <<Str(binary)>>
        \o (IF debug_output_path # None THEN DebugFlags ELSE <<>>)
        \o <<"statetest", Str(fixture_path)>>

\* A chain-test command with the --run filter after the fixture path.
BlocktestCommand_RunAfterPath(binary, fixture_path, fixture_name, debug_output_path) ==
    <<Str(binary)>>
        \o (IF debug_output_path # None THEN DebugFlags ELSE <<>>)
        \o <<"blocktest", Str(fixture_path)>>
        \o (IF Truthy(fixture_name) THEN <<"--run", fixture_name>> ELSE <<>>)

\* GethBlocktest.consume, the command
BlocktestCommand(binary, fixture_path, fixture_name, debug_output_path) ==
    <<Str(binary)>>
        \o (IF debug_output_path # None THEN DebugFlags ELSE <<>>)
        \o <<"blocktest">>
        \o (IF Truthy(fixture_name) THEN <<"--run", fixture_name>> ELSE <<>>)
        \o <<Str(fixture_path)>>

\* [binary, subcommand, "--help"]
HelpCommand(binary, subcommand) == <<Str(binary), subcommand, "--help">>

(***************************************************************************)
(* Outcomes of a call: a returned value or a raised exception.             *)
(***************************************************************************)
NoOutcome == [kind |-> "none", exc |-> "", msg |-> <<>>, value |-> <<>>]
Return(v) == [kind |-> "return", exc |-> "", msg |-> <<>>, value |-> v]
Raise(exc, msg) == [kind |-> "raise", exc |-> exc, msg |-> msg, value |-> <<>>]

\* _run_command: any failure to start the child is re-raised as Exception.
SpawnFailure ==
    Raise("Exception", <<"Unexpected exception calling evm tool: ", "No such file">>)

\* consume_fixture: no runner for the format.
FormatNotImplemented(fixture_format) ==
    Raise("NotImplementedError",
          <<"Geth can not verify fixture format of type ", fixture_format>>)

\* A raise on a nonzero exit code that loses the child's stderr.
UnexpectedExitCode_NoStderr(command, result) ==
    Raise("Exception",
          <<"Unexpected exit code:\n">> \o Join(command) \o <<"\n\n Error:\n">>)

\* The raise on a nonzero exit code.
UnexpectedExitCode(command, result) ==
    Raise("Exception",
          <<"Unexpected exit code:\n">> \o Join(command)
              \o <<"\n\n Error:\n">> \o result.stderr)

\* A statetest consume that answers like blocktest: no parsed records.
StatetestOutcome_Empty(command, result) ==
    IF result.returncode # 0 THEN UnexpectedExitCode(command, result)
    ELSE IF ~json_loads(result.stdout).ok
    THEN Raise("JSONDecodeError", <<"Expecting value">>)
    ELSE IF ~IsList(json_loads(result.stdout).val)
    THEN Raise("Exception",
               <<"Unexpected result from evm statetest: ">>
                   \o PyRepr(json_loads(result.stdout).val))
    ELSE Return(PyList(<<>>))

\* A statetest consume without the isinstance check.
StatetestOutcome_AnyShape(command, result) ==
    IF result.returncode # 0 THEN UnexpectedExitCode(command, result)
    ELSE IF ~json_loads(result.stdout).ok
    THEN Raise("JSONDecodeError", <<"Expecting value">>)
    ELSE Return(json_loads(result.stdout).val)

\* GethStatetest.consume after the child completed and the dump was made.
StatetestOutcome(command, result) ==
    IF result.returncode # 0 THEN UnexpectedExitCode(command, result)
    ELSE LET result_json == json_loads(result.stdout)
         IN  IF ~result_json.ok
             THEN Raise("JSONDecodeError", <<"Expecting value">>)
             ELSE IF ~IsList(result_json.val)
             THEN Raise("Exception",
                        <<"Unexpected result from evm statetest: ">>
                            \o PyRepr(result_json.val))
             ELSE Return(result_json.val)

\* A blocktest consume that reads stdout as statetest does.
BlocktestOutcome_Parsing(command, result) ==
    IF result.returncode # 0 THEN UnexpectedExitCode(command, result)
    ELSE IF ~json_loads(result.stdout).ok
    THEN Raise("JSONDecodeError", <<"Expecting value">>)
    ELSE Return(PyList(<<>>))

\* GethBlocktest.consume after the child completed and the dump was made.
BlocktestOutcome(command, result) ==
    IF result.returncode # 0 THEN UnexpectedExitCode(command, result)
    ELSE Return(PyList(<<>>))

(***************************************************************************)
(* The exception mapper: GethExceptionMapper's table, and the scan that    *)
(* classifies a raw error text against it.                                 *)
(***************************************************************************)
ExceptionMessage(exception, message) ==
    [exception |-> exception, message |-> message]

\* The table with the entry of "exceed maximum allowance" ahead of the
\* entry of "would exceed maximum allowance".
mapping_data_BroadFirst ==
    << ExceptionMessage("TransactionException.TYPE_4_TX_CONTRACT_CREATION",
           <<"set", "code", "transaction", "must", "not", "be", "a", "create", "transaction">>),
       ExceptionMessage("TransactionException.INSUFFICIENT_ACCOUNT_FUNDS",
           <<"insufficient", "funds", "for", "gas", "*", "price", "+", "value">>),
       ExceptionMessage("TransactionException.TYPE_3_TX_BLOB_COUNT_EXCEEDED",
           <<"exceed", "maximum", "allowance">>),
       ExceptionMessage("TransactionException.INSUFFICIENT_MAX_FEE_PER_BLOB_GAS",
           <<"max", "fee", "per", "blob", "gas", "less", "than", "block", "blob", "gas", "fee">>),
       ExceptionMessage("TransactionException.INSUFFICIENT_MAX_FEE_PER_GAS",
           <<"max", "fee", "per", "gas", "less", "than", "block", "base", "fee">>),
       ExceptionMessage("TransactionException.TYPE_3_TX_PRE_FORK",
           <<"blob", "tx", "used", "but", "field", "env.ExcessBlobGas", "missing">>),
       ExceptionMessage("TransactionException.TYPE_3_TX_INVALID_BLOB_VERSIONED_HASH",
           <<"has", "invalid", "hash", "version">>),
       ExceptionMessage("TransactionException.TYPE_3_TX_MAX_BLOB_GAS_ALLOWANCE_EXCEEDED",
           <<"would", "exceed", "maximum", "allowance">>),
       ExceptionMessage("TransactionException.TYPE_3_TX_ZERO_BLOBS",
           <<"blob", "transaction", "missing", "blob", "hashes">>),
       ExceptionMessage("TransactionException.INTRINSIC_GAS_TOO_LOW",
           <<"intrinsic", "gas", "too", "low">>),
       ExceptionMessage("TransactionException.INITCODE_SIZE_EXCEEDED",
           <<"max", "initcode", "size", "exceeded">>),
       ExceptionMessage("EOFException.MISSING_STOP_OPCODE",
           <<"err:", "no_terminating_instruction">>),
       ExceptionMessage("EOFException.MISSING_CODE_HEADER",
           <<"err:", "code_section_missing">>),
       ExceptionMessage("EOFException.MISSING_TYPE_HEADER",
           <<"err:", "type_section_missing">>),
       ExceptionMessage("EOFException.MISSING_TERMINATOR",
           <<"err:", "header_terminator_missing">>),
       ExceptionMessage("EOFException.MISSING_HEADERS_TERMINATOR",
           <<"err:", "section_headers_not_terminated">>),
       ExceptionMessage("EOFException.INVALID_VERSION",
           <<"err:", "eof_version_unknown">>),
       ExceptionMessage("EOFException.INVALID_NON_RETURNING_FLAG",
           <<"err:", "invalid_non_returning_flag">>),
       ExceptionMessage("EOFException.INVALID_MAGIC",
           <<"err:", "invalid_prefix">>),
       ExceptionMessage("EOFException.INVALID_FIRST_SECTION_TYPE",
           <<"err:", "invalid_first_section_type">>),
       ExceptionMessage("EOFException.INVALID_SECTION_BODIES_SIZE",
           <<"err:", "invalid_section_bodies_size">>),
       ExceptionMessage("EOFException.INVALID_TYPE_SECTION_SIZE",
           <<"err:", "invalid_type_section_size">>),
       ExceptionMessage("EOFException.INCOMPLETE_SECTION_SIZE",
           <<"err:", "incomplete_section_size">>),
       ExceptionMessage("EOFException.INCOMPLETE_SECTION_NUMBER",
           <<"err:", "incomplete_section_number">>),
       ExceptionMessage("EOFException.TOO_MANY_CODE_SECTIONS",
           <<"err:", "too_many_code_sections">>),
       ExceptionMessage("EOFException.ZERO_SECTION_SIZE",
           <<"err:", "zero_section_size">>),
       ExceptionMessage("EOFException.MISSING_DATA_SECTION",
           <<"err:", "data_section_missing">>),
       ExceptionMessage("EOFException.UNDEFINED_INSTRUCTION",
           <<"err:", "undefined_instruction">>),
       ExceptionMessage("EOFException.INPUTS_OUTPUTS_NUM_ABOVE_LIMIT",
           <<"err:", "inputs_outputs_num_above_limit">>),
       ExceptionMessage("EOFException.UNREACHABLE_INSTRUCTIONS",
           <<"err:", "unreachable_instructions">>),
       ExceptionMessage("EOFException.INVALID_RJUMP_DESTINATION",
           <<"err:", "invalid_rjump_destination">>),
       ExceptionMessage("EOFException.UNREACHABLE_CODE_SECTIONS",
           <<"err:", "unreachable_code_sections">>),
       ExceptionMessage("EOFException.STACK_UNDERFLOW",
           <<"err:", "stack_underflow">>),
       ExceptionMessage("EOFException.MAX_STACK_HEIGHT_ABOVE_LIMIT",
           <<"err:", "max_stack_height_above_limit">>),
       ExceptionMessage("EOFException.STACK_HIGHER_THAN_OUTPUTS",
           <<"err:", "stack_higher_than_outputs_required">>),
       ExceptionMessage("EOFException.JUMPF_DESTINATION_INCOMPATIBLE_OUTPUTS",
           <<"err:", "jumpf_destination_incompatible_outputs">>),
       ExceptionMessage("EOFException.INVALID_MAX_STACK_HEIGHT",
           <<"err:", "invalid_max_stack_height">>),
       ExceptionMessage("EOFException.INVALID_DATALOADN_INDEX",
           <<"err:", "invalid_dataloadn_index">>),
       ExceptionMessage("EOFException.TRUNCATED_INSTRUCTION",
           <<"err:", "truncated_instruction">>),
       ExceptionMessage("EOFException.TOPLEVEL_CONTAINER_TRUNCATED",
           <<"err:", "toplevel_container_truncated">>),
       ExceptionMessage("EOFException.ORPHAN_SUBCONTAINER",
           <<"err:", "unreferenced_subcontainer">>),
       ExceptionMessage("EOFException.CONTAINER_SIZE_ABOVE_LIMIT",
           <<"err:", "container_size_above_limit">>),
       ExceptionMessage("EOFException.INVALID_CONTAINER_SECTION_INDEX",
           <<"err:", "invalid_container_section_index">>),
       ExceptionMessage("EOFException.INCOMPATIBLE_CONTAINER_KIND",
           <<"err:", "incompatible_container_kind">>),
       ExceptionMessage("EOFException.STACK_HEIGHT_MISMATCH",
           <<"err:", "stack_height_mismatch">>),
       ExceptionMessage("EOFException.TOO_MANY_CONTAINERS",
           <<"err:", "too_many_container_sections">>),
       ExceptionMessage("EOFException.INVALID_CODE_SECTION_INDEX",
           <<"err:", "invalid_code_section_index">>) >>

\* The table with TYPE_3_TX_BLOB_COUNT_EXCEEDED given the message of
\* TYPE_3_TX_MAX_BLOB_GAS_ALLOWANCE_EXCEEDED.
mapping_data_SameMessage ==
    << ExceptionMessage("TransactionException.TYPE_4_TX_CONTRACT_CREATION",
           <<"set", "code", "transaction", "must", "not", "be", "a", "create", "transaction">>),
       ExceptionMessage("TransactionException.INSUFFICIENT_ACCOUNT_FUNDS",
           <<"insufficient", "funds", "for", "gas", "*", "price", "+", "value">>),
       ExceptionMessage("TransactionException.TYPE_3_TX_MAX_BLOB_GAS_ALLOWANCE_EXCEEDED",
           <<"would", "exceed", "maximum", "allowance">>),
       ExceptionMessage("TransactionException.INSUFFICIENT_MAX_FEE_PER_BLOB_GAS",
           <<"max", "fee", "per", "blob", "gas", "less", "than", "block", "blob", "gas", "fee">>),
       ExceptionMessage("TransactionException.INSUFFICIENT_MAX_FEE_PER_GAS",
           <<"max", "fee", "per", "gas", "less", "than", "block", "base", "fee">>),
       ExceptionMessage("TransactionException.TYPE_3_TX_PRE_FORK",
           <<"blob", "tx", "used", "but", "field", "env.ExcessBlobGas", "missing">>),
       ExceptionMessage("TransactionException.TYPE_3_TX_INVALID_BLOB_VERSIONED_HASH",
           <<"has", "invalid", "hash", "version">>),
       ExceptionMessage("TransactionException.TYPE_3_TX_BLOB_COUNT_EXCEEDED",
           <<"would", "exceed", "maximum", "allowance">>),
       ExceptionMessage("TransactionException.TYPE_3_TX_ZERO_BLOBS",
           <<"blob", "transaction", "missing", "blob", "hashes">>),
       ExceptionMessage("TransactionException.INTRINSIC_GAS_TOO_LOW",
           <<"intrinsic", "gas", "too", "low">>),
       ExceptionMessage("TransactionException.INITCODE_SIZE_EXCEEDED",
           <<"max", "initcode", "size", "exceeded">>),
       ExceptionMessage("EOFException.MISSING_STOP_OPCODE",
           <<"err:", "no_terminating_instruction">>),
       ExceptionMessage("EOFException.MISSING_CODE_HEADER",
           <<"err:", "code_section_missing">>),
       ExceptionMessage("EOFException.MISSING_TYPE_HEADER",
           <<"err:", "type_section_missing">>),
       ExceptionMessage("EOFException.MISSING_TERMINATOR",
           <<"err:", "header_terminator_missing">>),
       ExceptionMessage("EOFException.MISSING_HEADERS_TERMINATOR",
           <<"err:", "section_headers_not_terminated">>),
       ExceptionMessage("EOFException.INVALID_VERSION",
           <<"err:", "eof_version_unknown">>),
       ExceptionMessage("EOFException.INVALID_NON_RETURNING_FLAG",
           <<"err:", "invalid_non_returning_flag">>),
       ExceptionMessage("EOFException.INVALID_MAGIC",
           <<"err:", "invalid_prefix">>),
       ExceptionMessage("EOFException.INVALID_FIRST_SECTION_TYPE",
           <<"err:", "invalid_first_section_type">>),
       ExceptionMessage("EOFException.INVALID_SECTION_BODIES_SIZE",
           <<"err:", "invalid_section_bodies_size">>),
       ExceptionMessage("EOFException.INVALID_TYPE_SECTION_SIZE",
           <<"err:", "invalid_type_section_size">>),
       ExceptionMessage("EOFException.INCOMPLETE_SECTION_SIZE",
           <<"err:", "incomplete_section_size">>),
       ExceptionMessage("EOFException.INCOMPLETE_SECTION_NUMBER",
           <<"err:", "incomplete_section_number">>),
       ExceptionMessage("EOFException.TOO_MANY_CODE_SECTIONS",
           <<"err:", "too_many_code_sections">>),
       ExceptionMessage("EOFException.ZERO_SECTION_SIZE",
           <<"err:", "zero_section_size">>),
       ExceptionMessage("EOFException.MISSING_DATA_SECTION",
           <<"err:", "data_section_missing">>),
       ExceptionMessage("EOFException.UNDEFINED_INSTRUCTION",
           <<"err:", "undefined_instruction">>),
       ExceptionMessage("EOFException.INPUTS_OUTPUTS_NUM_ABOVE_LIMIT",
           <<"err:", "inputs_outputs_num_above_limit">>),
       ExceptionMessage("EOFException.UNREACHABLE_INSTRUCTIONS",
           <<"err:", "unreachable_instructions">>),
       ExceptionMessage("EOFException.INVALID_RJUMP_DESTINATION",
           <<"err:", "invalid_rjump_destination">>),
       ExceptionMessage("EOFException.UNREACHABLE_CODE_SECTIONS",
           <<"err:", "unreachable_code_sections">>),
       ExceptionMessage("EOFException.STACK_UNDERFLOW",
           <<"err:", "stack_underflow">>),
       ExceptionMessage("EOFException.MAX_STACK_HEIGHT_ABOVE_LIMIT",
           <<"err:", "max_stack_height_above_limit">>),
       ExceptionMessage("EOFException.STACK_HIGHER_THAN_OUTPUTS",
           <<"err:", "stack_higher_than_outputs_required">>),
       ExceptionMessage("EOFException.JUMPF_DESTINATION_INCOMPATIBLE_OUTPUTS",
           <<"err:", "jumpf_destination_incompatible_outputs">>),
       ExceptionMessage("EOFException.INVALID_MAX_STACK_HEIGHT",
           <<"err:", "invalid_max_stack_height">>),
       ExceptionMessage("EOFException.INVALID_DATALOADN_INDEX",
           <<"err:", "invalid_dataloadn_index">>),
       ExceptionMessage("EOFException.TRUNCATED_INSTRUCTION",
           <<"err:", "truncated_instruction">>),
       ExceptionMessage("EOFException.TOPLEVEL_CONTAINER_TRUNCATED",
           <<"err:", "toplevel_container_truncated">>),
       ExceptionMessage("EOFException.ORPHAN_SUBCONTAINER",
           <<"err:", "unreferenced_subcontainer">>),
       ExceptionMessage("EOFException.CONTAINER_SIZE_ABOVE_LIMIT",
           <<"err:", "container_size_above_limit">>),
       ExceptionMessage("EOFException.INVALID_CONTAINER_SECTION_INDEX",
           <<"err:", "invalid_container_section_index">>),
       ExceptionMessage("EOFException.INCOMPATIBLE_CONTAINER_KIND",
           <<"err:", "incompatible_container_kind">>),
       ExceptionMessage("EOFException.STACK_HEIGHT_MISMATCH",
           <<"err:", "stack_height_mismatch">>),
       ExceptionMessage("EOFException.TOO_MANY_CONTAINERS",
           <<"err:", "too_many_container_sections">>),
       ExceptionMessage("EOFException.INVALID_CODE_SECTION_INDEX",
           <<"err:", "invalid_code_section_index">>) >>

\* The table with the messages of INTRINSIC_GAS_TOO_LOW and
\* INITCODE_SIZE_EXCEEDED exchanged.
mapping_data_Exchanged ==
    << ExceptionMessage("TransactionException.TYPE_4_TX_CONTRACT_CREATION",
           <<"set", "code", "transaction", "must", "not", "be", "a", "create", "transaction">>),
       ExceptionMessage("TransactionException.INSUFFICIENT_ACCOUNT_FUNDS",
           <<"insufficient", "funds", "for", "gas", "*", "price", "+", "value">>),
       ExceptionMessage("TransactionException.TYPE_3_TX_MAX_BLOB_GAS_ALLOWANCE_EXCEEDED",
           <<"would", "exceed", "maximum", "allowance">>),
       ExceptionMessage("TransactionException.INSUFFICIENT_MAX_FEE_PER_BLOB_GAS",
           <<"max", "fee", "per", "blob", "gas", "less", "than", "block", "blob", "gas", "fee">>),
       ExceptionMessage("TransactionException.INSUFFICIENT_MAX_FEE_PER_GAS",
           <<"max", "fee", "per", "gas", "less", "than", "block", "base", "fee">>),
       ExceptionMessage("TransactionException.TYPE_3_TX_PRE_FORK",
           <<"blob", "tx", "used", "but", "field", "env.ExcessBlobGas", "missing">>),
       ExceptionMessage("TransactionException.TYPE_3_TX_INVALID_BLOB_VERSIONED_HASH",
           <<"has", "invalid", "hash", "version">>),
       ExceptionMessage("TransactionException.TYPE_3_TX_BLOB_COUNT_EXCEEDED",
           <<"exceed", "maximum", "allowance">>),
       ExceptionMessage("TransactionException.TYPE_3_TX_ZERO_BLOBS",
           <<"blob", "transaction", "missing", "blob", "hashes">>),
       ExceptionMessage("TransactionException.INTRINSIC_GAS_TOO_LOW",
           <<"max", "initcode", "size", "exceeded">>),
       ExceptionMessage("TransactionException.INITCODE_SIZE_EXCEEDED",
           <<"intrinsic", "gas", "too", "low">>),
       ExceptionMessage("EOFException.MISSING_STOP_OPCODE",
           <<"err:", "no_terminating_instruction">>),
       ExceptionMessage("EOFException.MISSING_CODE_HEADER",
           <<"err:", "code_section_missing">>),
       ExceptionMessage("EOFException.MISSING_TYPE_HEADER",
           <<"err:", "type_section_missing">>),
       ExceptionMessage("EOFException.MISSING_TERMINATOR",
           <<"err:", "header_terminator_missing">>),
       ExceptionMessage("EOFException.MISSING_HEADERS_TERMINATOR",
           <<"err:", "section_headers_not_terminated">>),
       ExceptionMessage("EOFException.INVALID_VERSION",
           <<"err:", "eof_version_unknown">>),
       ExceptionMessage("EOFException.INVALID_NON_RETURNING_FLAG",
           <<"err:", "invalid_non_returning_flag">>),
       ExceptionMessage("EOFException.INVALID_MAGIC",
           <<"err:", "invalid_prefix">>),
       ExceptionMessage("EOFException.INVALID_FIRST_SECTION_TYPE",
           <<"err:", "invalid_first_section_type">>),
       ExceptionMessage("EOFException.INVALID_SECTION_BODIES_SIZE",
           <<"err:", "invalid_section_bodies_size">>),
       ExceptionMessage("EOFException.INVALID_TYPE_SECTION_SIZE",
           <<"err:", "invalid_type_section_size">>),
       ExceptionMessage("EOFException.INCOMPLETE_SECTION_SIZE",
           <<"err:", "incomplete_section_size">>),
       ExceptionMessage("EOFException.INCOMPLETE_SECTION_NUMBER",
           <<"err:", "incomplete_section_number">>),
       ExceptionMessage("EOFException.TOO_MANY_CODE_SECTIONS",
           <<"err:", "too_many_code_sections">>),
       ExceptionMessage("EOFException.ZERO_SECTION_SIZE",
           <<"err:", "zero_section_size">>),
       ExceptionMessage("EOFException.MISSING_DATA_SECTION",
           <<"err:", "data_section_missing">>),
       ExceptionMessage("EOFException.UNDEFINED_INSTRUCTION",
           <<"err:", "undefined_instruction">>),
       ExceptionMessage("EOFException.INPUTS_OUTPUTS_NUM_ABOVE_LIMIT",
           <<"err:", "inputs_outputs_num_above_limit">>),
       ExceptionMessage("EOFException.UNREACHABLE_INSTRUCTIONS",
           <<"err:", "unreachable_instructions">>),
       ExceptionMessage("EOFException.INVALID_RJUMP_DESTINATION",
           <<"err:", "invalid_rjump_destination">>),
       ExceptionMessage("EOFException.UNREACHABLE_CODE_SECTIONS",
           <<"err:", "unreachable_code_sections">>),
       ExceptionMessage("EOFException.STACK_UNDERFLOW",
           <<"err:", "stack_underflow">>),
       ExceptionMessage("EOFException.MAX_STACK_HEIGHT_ABOVE_LIMIT",
           <<"err:", "max_stack_height_above_limit">>),
       ExceptionMessage("EOFException.STACK_HIGHER_THAN_OUTPUTS",
           <<"err:", "stack_higher_than_outputs_required">>),
       ExceptionMessage("EOFException.JUMPF_DESTINATION_INCOMPATIBLE_OUTPUTS",
           <<"err:", "jumpf_destination_incompatible_outputs">>),
       ExceptionMessage("EOFException.INVALID_MAX_STACK_HEIGHT",
           <<"err:", "invalid_max_stack_height">>),
       ExceptionMessage("EOFException.INVALID_DATALOADN_INDEX",
           <<"err:", "invalid_dataloadn_index">>),
       ExceptionMessage("EOFException.TRUNCATED_INSTRUCTION",
           <<"err:", "truncated_instruction">>),
       ExceptionMessage("EOFException.TOPLEVEL_CONTAINER_TRUNCATED",
           <<"err:", "toplevel_container_truncated">>),
       ExceptionMessage("EOFException.ORPHAN_SUBCONTAINER",
           <<"err:", "unreferenced_subcontainer">>),
       ExceptionMessage("EOFException.CONTAINER_SIZE_ABOVE_LIMIT",
           <<"err:", "container_size_above_limit">>),
       ExceptionMessage("EOFException.INVALID_CONTAINER_SECTION_INDEX",
           <<"err:", "invalid_container_section_index">>),
       ExceptionMessage("EOFException.INCOMPATIBLE_CONTAINER_KIND",
           <<"err:", "incompatible_container_kind">>),
       ExceptionMessage("EOFException.STACK_HEIGHT_MISMATCH",
           <<"err:", "stack_height_mismatch">>),
       ExceptionMessage("EOFException.TOO_MANY_CONTAINERS",
           <<"err:", "too_many_container_sections">>),
       ExceptionMessage("EOFException.INVALID_CODE_SECTION_INDEX",
           <<"err:", "invalid_code_section_index">>) >>

\* GethExceptionMapper._mapping_data
mapping_data ==
    << ExceptionMessage("TransactionException.TYPE_4_TX_CONTRACT_CREATION",
           <<"set", "code", "transaction", "must", "not", "be", "a", "create", "transaction">>),
       ExceptionMessage("TransactionException.INSUFFICIENT_ACCOUNT_FUNDS",
           <<"insufficient", "funds", "for", "gas", "*", "price", "+", "value">>),
       ExceptionMessage("TransactionException.TYPE_3_TX_MAX_BLOB_GAS_ALLOWANCE_EXCEEDED",
           <<"would", "exceed", "maximum", "allowance">>),
       ExceptionMessage("TransactionException.INSUFFICIENT_MAX_FEE_PER_BLOB_GAS",
           <<"max", "fee", "per", "blob", "gas", "less", "than", "block", "blob", "gas", "fee">>),
       ExceptionMessage("TransactionException.INSUFFICIENT_MAX_FEE_PER_GAS",
           <<"max", "fee", "per", "gas", "less", "than", "block", "base", "fee">>),
       ExceptionMessage("TransactionException.TYPE_3_TX_PRE_FORK",
           <<"blob", "tx", "used", "but", "field", "env.ExcessBlobGas", "missing">>),
       ExceptionMessage("TransactionException.TYPE_3_TX_INVALID_BLOB_VERSIONED_HASH",
           <<"has", "invalid", "hash", "version">>),
       ExceptionMessage("TransactionException.TYPE_3_TX_BLOB_COUNT_EXCEEDED",
           <<"exceed", "maximum", "allowance">>),
       ExceptionMessage("TransactionException.TYPE_3_TX_ZERO_BLOBS",
           <<"blob", "transaction", "missing", "blob", "hashes">>),
       ExceptionMessage("TransactionException.INTRINSIC_GAS_TOO_LOW",
           <<"intrinsic", "gas", "too", "low">>),
       ExceptionMessage("TransactionException.INITCODE_SIZE_EXCEEDED",
           <<"max", "initcode", "size", "exceeded">>),
       ExceptionMessage("EOFException.MISSING_STOP_OPCODE",
           <<"err:", "no_terminating_instruction">>),
       ExceptionMessage("EOFException.MISSING_CODE_HEADER",
           <<"err:", "code_section_missing">>),
       ExceptionMessage("EOFException.MISSING_TYPE_HEADER",
           <<"err:", "type_section_missing">>),
       ExceptionMessage("EOFException.MISSING_TERMINATOR",
           <<"err:", "header_terminator_missing">>),
       ExceptionMessage("EOFException.MISSING_HEADERS_TERMINATOR",
           <<"err:", "section_headers_not_terminated">>),
       ExceptionMessage("EOFException.INVALID_VERSION",
           <<"err:", "eof_version_unknown">>),
       ExceptionMessage("EOFException.INVALID_NON_RETURNING_FLAG",
           <<"err:", "invalid_non_returning_flag">>),
       ExceptionMessage("EOFException.INVALID_MAGIC",
           <<"err:", "invalid_prefix">>),
       ExceptionMessage("EOFException.INVALID_FIRST_SECTION_TYPE",
           <<"err:", "invalid_first_section_type">>),
       ExceptionMessage("EOFException.INVALID_SECTION_BODIES_SIZE",
           <<"err:", "invalid_section_bodies_size">>),
       ExceptionMessage("EOFException.INVALID_TYPE_SECTION_SIZE",
           <<"err:", "invalid_type_section_size">>),
       ExceptionMessage("EOFException.INCOMPLETE_SECTION_SIZE",
           <<"err:", "incomplete_section_size">>),
       ExceptionMessage("EOFException.INCOMPLETE_SECTION_NUMBER",
           <<"err:", "incomplete_section_number">>),
       ExceptionMessage("EOFException.TOO_MANY_CODE_SECTIONS",
           <<"err:", "too_many_code_sections">>),
       ExceptionMessage("EOFException.ZERO_SECTION_SIZE",
           <<"err:", "zero_section_size">>),
       ExceptionMessage("EOFException.MISSING_DATA_SECTION",
           <<"err:", "data_section_missing">>),
       ExceptionMessage("EOFException.UNDEFINED_INSTRUCTION",
           <<"err:", "undefined_instruction">>),
       ExceptionMessage("EOFException.INPUTS_OUTPUTS_NUM_ABOVE_LIMIT",
           <<"err:", "inputs_outputs_num_above_limit">>),
       ExceptionMessage("EOFException.UNREACHABLE_INSTRUCTIONS",
           <<"err:", "unreachable_instructions">>),
       ExceptionMessage("EOFException.INVALID_RJUMP_DESTINATION",
           <<"err:", "invalid_rjump_destination">>),
       ExceptionMessage("EOFException.UNREACHABLE_CODE_SECTIONS",
           <<"err:", "unreachable_code_sections">>),
       ExceptionMessage("EOFException.STACK_UNDERFLOW",
           <<"err:", "stack_underflow">>),
       ExceptionMessage("EOFException.MAX_STACK_HEIGHT_ABOVE_LIMIT",
           <<"err:", "max_stack_height_above_limit">>),
       ExceptionMessage("EOFException.STACK_HIGHER_THAN_OUTPUTS",
           <<"err:", "stack_higher_than_outputs_required">>),
       ExceptionMessage("EOFException.JUMPF_DESTINATION_INCOMPATIBLE_OUTPUTS",
           <<"err:", "jumpf_destination_incompatible_outputs">>),
       ExceptionMessage("EOFException.INVALID_MAX_STACK_HEIGHT",
           <<"err:", "invalid_max_stack_height">>),
       ExceptionMessage("EOFException.INVALID_DATALOADN_INDEX",
           <<"err:", "invalid_dataloadn_index">>),
       ExceptionMessage("EOFException.TRUNCATED_INSTRUCTION",
           <<"err:", "truncated_instruction">>),
       ExceptionMessage("EOFException.TOPLEVEL_CONTAINER_TRUNCATED",
           <<"err:", "toplevel_container_truncated">>),
       ExceptionMessage("EOFException.ORPHAN_SUBCONTAINER",
           <<"err:", "unreferenced_subcontainer">>),
       ExceptionMessage("EOFException.CONTAINER_SIZE_ABOVE_LIMIT",
           <<"err:", "container_size_above_limit">>),
       ExceptionMessage("EOFException.INVALID_CONTAINER_SECTION_INDEX",
           <<"err:", "invalid_container_section_index">>),
       ExceptionMessage("EOFException.INCOMPATIBLE_CONTAINER_KIND",
           <<"err:", "incompatible_container_kind">>),
       ExceptionMessage("EOFException.STACK_HEIGHT_MISMATCH",
           <<"err:", "stack_height_mismatch">>),
       ExceptionMessage("EOFException.TOO_MANY_CONTAINERS",
           <<"err:", "too_many_container_sections">>),
       ExceptionMessage("EOFException.INVALID_CODE_SECTION_INDEX",
           <<"err:", "invalid_code_section_index">>) >>

\* The result for a text no entry matches.
Unmapped == "unmapped"

\* Linear scan from entry i: the kind of the first entry whose message is a
\* part of the text.
RECURSIVE ScanFrom(_, _)
ScanFrom(i, text) ==
    IF i > Len(mapping_data) THEN Unmapped
    ELSE IF Contains(text, mapping_data[i].message)
    THEN mapping_data[i].exception
    ELSE ScanFrom(i + 1, text)

\* ExceptionMapper: raw error text -> canonical exception kind.
message_to_exception(text) == ScanFrom(1, text)

\* Raw texts: each message alone, inside other words, cut short at either
\* end, two messages in one text, and texts with no message at all.
Messages == {mapping_data[i].message : i \in 1..Len(mapping_data)}

RawTexts ==
    {<<>>, <<"unexpected", "state", "root">>}
        \cup {pre \o m \o post :
                m \in Messages,
                pre \in {<<>>, <<"rejected", "tx:">>},
                post \in {<<>>, <<"(block", "1)">>}}
        \cup {SubSeq(m, 1, Len(m) - 1) : m \in Messages}
        \cup {Tail(m) : m \in Messages}
        \cup {m1 \o <<";">> \o m2 : m1 \in Messages, m2 \in Messages}

(***************************************************************************)
(* State.                                                                  *)
(***************************************************************************)
VARIABLES
    options,          \* the command-line options: evm_bin, evm_collect_traces
    consumer,         \* config.fixture_consumer: the GethFixtureConsumer
    run_single_test,  \* config.run_single_test
    procs,            \* every child process the program tried to spawn
    fs,               \* the content of each debug directory
    call,             \* per caller: the consume_fixture call in progress
    raw_text,         \* the error text handed to the exception mapper
    mapped,           \* the mapper's answer for raw_text
    log,              \* the caller's record of its finished calls, in order
    help_seen,        \* the caller's record of the last help() answer
    base_dump_dir,    \* the option base_dump_dir of the session
    dump_dirs,        \* the test_dump_dir of each test case so far, in order
    execute_config,   \* the execute plugin: its options and pytest_configure
    execute_test,     \* the execute plugin: the test in progress
    scenario_gen,     \* ScenariosCallCombinations: its lists and its loop
    fee               \* Spec.get_fee / Spec.fake_exponential in progress

consumeVars == <<options, consumer, run_single_test, procs, fs, call>>
mapperVars == <<raw_text, mapped>>
callerVars == <<log, help_seen>>
testVars == <<tmp, test>>
dumpVars == <<base_dump_dir, dump_dirs>>
executeVars == <<execute_config, execute_test>>
helperVars == <<scenario_gen, fee>>
pluginVars == <<dumpVars, executeVars, helperVars>>
vars == <<consumeVars, mapperVars, callerVars, testVars, pluginVars>>

\* What the consume operations leave alone, and what the mapper does.
outsideConsume == <<mapperVars, callerVars, testVars, pluginVars>>
outsideMapper == <<consumeVars, callerVars, testVars, pluginVars>>

CallerIds == {1, 2}

\* A GethStatetest / GethBlocktest object.
NoRunner == [binary |-> None, trace |-> FALSE, help_string |-> <<>>]
Runner(binary, trace, help_string) ==
    [binary |-> binary, trace |-> trace, help_string |-> help_string]

NoConsumer ==
    [ state |-> "none",
      statetest_binary |-> None, blocktest_binary |-> None,
      eoftest_binary |-> None,
      statetest |-> NoRunner, blocktest |-> NoRunner ]

\* GethFixtureConsumer.__init__ after both runners were built.
GethFixtureConsumer(binary, trace, statetest_help, blocktest_help) ==
    [ state |-> "ready",
      statetest_binary |-> binary, blocktest_binary |-> binary,
      eoftest_binary |-> None,
      statetest |-> Runner(binary, trace, statetest_help),
      blocktest |-> Runner(binary, trace, blocktest_help) ]

\* An is_consumable whose EOF branch reads the statetest role.
is_consumable_WrongRole(fixture_format) ==
    IF fixture_format = StateFixture THEN consumer.statetest_binary # None
    ELSE IF fixture_format = BlockchainFixture THEN consumer.blocktest_binary # None
    ELSE IF fixture_format = EOFFixture THEN consumer.statetest_binary # None
    ELSE FALSE

\* FixtureConsumer.is_consumable
is_consumable(fixture_format) ==
    IF fixture_format = StateFixture THEN consumer.statetest_binary # None
    ELSE IF fixture_format = BlockchainFixture THEN consumer.blocktest_binary # None
    ELSE IF fixture_format = EOFFixture THEN consumer.eoftest_binary # None
    ELSE FALSE

IdleCall ==
    [ pc |-> "idle",
      fixture_format |-> None, fixture_path |-> None,
      fixture_name |-> None, debug_output_path |-> None,
      command |-> <<>>, result |-> NoProcess, outcome |-> NoOutcome ]

\* A child process: who spawned it, its command line, whether it started
\* and what it wrote to stdout.
Proc(by, cmd, result) ==
    [by |-> by, cmd |-> cmd, started |-> result.started, stdout |-> result.stdout]

\* pytest_addoption: --evm-bin (default None) and --traces (default False).
Options == [evm_bin : Binaries, evm_collect_traces : BOOLEAN]

\* No text was classified yet.
NotClassified == "not classified"

InitConsume ==
    /\ consumer = NoConsumer
    /\ run_single_test = FALSE
    /\ procs = <<>>
    /\ fs = [d \in DebugDirs |-> EmptyDir]
    /\ call = [c \in CallerIds |-> IdleCall]

\* What a help() call returned to its caller; none was made yet.
NoHelpSeen == [runner |-> None, text |-> <<>>]

\* No test has begun.
NoTest ==
    [ pc |-> "none", source |-> None, id |-> None, fixture |-> <<>>,
      format |-> None, fixture_path |-> None ]

\* No dump directory is configured and none was asked for.
InitDumpDirs ==
    /\ base_dump_dir = None
    /\ dump_dirs = <<>>

\* The execute plugin is not loaded.
InitExecute ==
    /\ execute_config =
            [ state |-> "none", collectonly |-> FALSE, disable_html |-> FALSE,
              html_given |-> None, htmlpath |-> None, default_gas_price |-> 0 ]
    /\ execute_test =
            [ pc |-> "none", funded_eoa |-> 0, outcome |-> "none",
              balances |-> <<>>, refund_txs |-> <<>>, rpc |-> <<>> ]

\* No scenario generator was built.
NoGenerator ==
    [ state |-> "none", call_opcodes |-> <<>>, first_calls |-> <<>>,
      second_calls |-> <<>>, i |-> 1, j |-> 1, list |-> <<>> ]

\* No fee is being computed.
NoFee ==
    [ pc |-> "none", entry |-> "none", excess |-> 0, factor |-> 0,
      numerator |-> 0, denominator |-> 1, i |-> 0, output |-> 0,
      numerator_accumulator |-> 0, result |-> 0 ]

InitHelpers ==
    /\ scenario_gen = NoGenerator
    /\ fee = NoFee

InitPlugins == InitDumpDirs /\ InitExecute /\ InitHelpers

InitCaller ==
    /\ log = <<>>
    /\ help_seen = NoHelpSeen
    /\ tmp = NoTemp
    /\ test = NoTest
    /\ InitPlugins

Init ==
    /\ options \in Options
    /\ InitConsume
    /\ InitCaller
    /\ raw_text = <<>>
    /\ mapped = NotClassified

(***************************************************************************)
(* Construction: pytest_configure builds the GethFixtureConsumer, whose    *)
(* two runners each spawn "<binary> <subcommand> --help".                  *)
(***************************************************************************)
pytest_configure ==
    /\ consumer.state = "none"
    /\ \E h1 \in HelpResults \cup {NoProcess}, h2 \in HelpResults \cup {NoProcess} :
        LET binary == options.evm_bin
            trace == options.evm_collect_traces
            p1 == Proc(0, HelpCommand(binary, "statetest"), h1)
            p2 == Proc(0, HelpCommand(binary, "blocktest"), h2)
        IN  IF ~h1.started
            THEN /\ consumer' = [NoConsumer EXCEPT !.state = "failed"]
                 /\ procs' = procs \o <<p1>>
                 /\ UNCHANGED run_single_test
            ELSE IF ~h2.started
            THEN /\ consumer' = [NoConsumer EXCEPT !.state = "failed"]
                 /\ procs' = procs \o <<p1, p2>>
                 /\ UNCHANGED run_single_test
            ELSE /\ consumer' =
                        GethFixtureConsumer(binary, trace, h1.stdout, h2.stdout)
                 /\ procs' = procs \o <<p1, p2>>
                 /\ run_single_test' = Contains(h2.stdout, <<"--run">>)
    /\ UNCHANGED <<options, fs, call>>
    /\ UNCHANGED outsideConsume

(***************************************************************************)
(* GethFixtureConsumer.consume_fixture, in the steps of the runner's       *)
(* consume: build the command, run the child, dump, examine the result.    *)
(***************************************************************************)
\* A routing that hands each of the two formats to the other runner.
RunnerFor_Exchanged(fixture_format) ==
    IF fixture_format = StateFixture THEN "blocktest"
    ELSE IF fixture_format = BlockchainFixture THEN "statetest"
    ELSE None

\* The runner consume_fixture routes the format to, or None.
RunnerFor(fixture_format) ==
    IF fixture_format = StateFixture THEN "statetest"
    ELSE IF fixture_format = BlockchainFixture THEN "blocktest"
    ELSE None

\* A consume_fixture whose runner keeps its command list from call to call
\* and appends to it.
ConsumeFixture_SharedCommand(c, fixture_format, fixture_path, fixture_name, debug_output_path) ==
    /\ consumer.state = "ready"
    /\ call[c].pc = "idle"
    /\ LET entered ==
            [ IdleCall EXCEPT
                !.fixture_format = fixture_format,
                !.fixture_path = fixture_path,
                !.fixture_name = fixture_name,
                !.debug_output_path = debug_output_path ]
           kept == IF log = <<>> THEN <<>> ELSE log[Len(log)].command
       IN  call' = [call EXCEPT ![c] =
                IF RunnerFor(fixture_format) = "statetest"
                THEN [entered EXCEPT
                        !.pc = "built",
                        !.command = kept \o
                            StatetestCommand(consumer.statetest.binary,
                                fixture_path, debug_output_path)]
                ELSE IF RunnerFor(fixture_format) = "blocktest"
                THEN [entered EXCEPT
                        !.pc = "built",
                        !.command = kept \o
                            BlocktestCommand(consumer.blocktest.binary,
                                fixture_path, fixture_name, debug_output_path)]
                ELSE [entered EXCEPT
                        !.pc = "done",
                        !.outcome = FormatNotImplemented(fixture_format)]]
    /\ UNCHANGED <<options, consumer, run_single_test, procs, fs>>
    /\ UNCHANGED outsideConsume

\* consume_fixture up to the call of _run_command.
ConsumeFixture(c, fixture_format, fixture_path, fixture_name, debug_output_path) ==
    /\ consumer.state = "ready"
    /\ call[c].pc = "idle"
    /\ LET entered ==
            [ IdleCall EXCEPT
                !.fixture_format = fixture_format,
                !.fixture_path = fixture_path,
                !.fixture_name = fixture_name,
                !.debug_output_path = debug_output_path ]
       IN  call' = [call EXCEPT ![c] =
                IF RunnerFor(fixture_format) = "statetest"
                THEN [entered EXCEPT
                        !.pc = "built",
                        !.command = StatetestCommand(consumer.statetest.binary,
                                        fixture_path, debug_output_path)]
                ELSE IF RunnerFor(fixture_format) = "blocktest"
                THEN [entered EXCEPT
                        !.pc = "built",
                        !.command = BlocktestCommand(consumer.blocktest.binary,
                                        fixture_path, fixture_name,
                                        debug_output_path)]
                ELSE [entered EXCEPT
                        !.pc = "done",
                        !.outcome = FormatNotImplemented(fixture_format)]]
    /\ UNCHANGED <<options, consumer, run_single_test, procs, fs>>
    /\ UNCHANGED outsideConsume

\* A _run_command that starts the child a second time after a nonzero exit.
RunCommandWith_Retry(c, results) ==
    /\ call[c].pc = "built"
    /\ \E first \in results \cup {NoProcess}, result \in results \cup {NoProcess} :
        /\ (first.started /\ first.returncode # 0) \/ first = result
        /\ procs' = IF first.started /\ first.returncode # 0
                    THEN procs \o <<Proc(c, call[c].command, first),
                                    Proc(c, call[c].command, result)>>
                    ELSE Append(procs, Proc(c, call[c].command, result))
        /\ call' = [call EXCEPT ![c] =
                IF result.started
                THEN [call[c] EXCEPT !.pc = "ran", !.result = result]
                ELSE [call[c] EXCEPT !.pc = "done", !.outcome = SpawnFailure]]
    /\ UNCHANGED <<options, consumer, run_single_test, fs>>
    /\ UNCHANGED outsideConsume

\* _run_command(command): the child runs to completion with one of the
\* results, or cannot start.
RunCommandWith(c, results) ==
    /\ call[c].pc = "built"
    /\ \E result \in results \cup {NoProcess} :
        /\ procs' = Append(procs, Proc(c, call[c].command, result))
        /\ call' = [call EXCEPT ![c] =
                IF result.started
                THEN [call[c] EXCEPT !.pc = "ran", !.result = result]
                ELSE [call[c] EXCEPT !.pc = "done", !.outcome = SpawnFailure]]
    /\ UNCHANGED <<options, consumer, run_single_test, fs>>
    /\ UNCHANGED outsideConsume

RunCommand(c) == RunCommandWith(c, ConsumeResults)

\* A dump that is made only for a passing child.
DumpRequested_OnSuccess(cl) ==
    cl.debug_output_path # None /\ cl.result.returncode = 0

\* if debug_output_path: ...
DumpRequested(cl) == cl.debug_output_path # None

\* shutil.copyfile on a path with no file.
FixtureNotFound(fixture_path) ==
    Raise("FileNotFoundError",
          <<"No such file or directory: ", Str(fixture_path)>>)

\* The dump between _run_command and the examination of the result; a
\* fixture file that is not there ends the call in the copy.
DebugDump(c) ==
    /\ call[c].pc = "ran"
    /\ fs' = IF DumpRequested(call[c])
             THEN [fs EXCEPT ![call[c].debug_output_path] =
                      consume_debug_dump(@, call[c].command, call[c].result,
                          call[c].fixture_path, call[c].debug_output_path)]
             ELSE fs
    /\ call' = [call EXCEPT ![c] =
            IF DumpRequested(call[c]) /\ ~FileExists(call[c].fixture_path)
            THEN [call[c] EXCEPT
                    !.pc = "done",
                    !.outcome = FixtureNotFound(call[c].fixture_path)]
            ELSE [call[c] EXCEPT !.pc = "dumped"]]
    /\ UNCHANGED <<options, consumer, run_single_test, procs>>
    /\ UNCHANGED outsideConsume

\* The rest of consume: exit code, parsing, return value.
CheckResult(c) ==
    /\ call[c].pc = "dumped"
    /\ LET cl == call[c]
       IN  call' = [call EXCEPT ![c] =
                [cl EXCEPT
                    !.pc = "done",
                    !.outcome =
                        IF RunnerFor(cl.fixture_format) = "statetest"
                        THEN StatetestOutcome(cl.command, cl.result)
                        ELSE BlocktestOutcome(cl.command, cl.result)]]
    /\ UNCHANGED <<options, consumer, run_single_test, procs, fs>>
    /\ UNCHANGED outsideConsume

Next ==
    \/ pytest_configure
    \/ \E fixture_format \in FixtureFormats, fixture_path \in Paths,
          fixture_name \in Names, debug_output_path \in OptDebugDirs :
            ConsumeFixture(1, fixture_format, fixture_path, fixture_name,
                           debug_output_path)
    \/ RunCommand(1)
    \/ DebugDump(1)
    \/ CheckResult(1)

Spec == Init /\ [][Next]_vars

(***************************************************************************)
(* The mapper on its own: a raw text is drawn and classified.              *)
(***************************************************************************)
MapperInit ==
    /\ options = [evm_bin |-> None, evm_collect_traces |-> FALSE]
    /\ InitConsume
    /\ InitCaller
    /\ raw_text \in RawTexts
    /\ mapped = NotClassified

Classify ==
    /\ mapped = NotClassified
    /\ mapped' = message_to_exception(raw_text)
    /\ UNCHANGED raw_text
    /\ UNCHANGED outsideMapper

MapperNext == Classify

MapperSpec == MapperInit /\ [][MapperNext]_vars

(***************************************************************************)
(* Several calls on one consumer: one caller making call after call and    *)
(* asking the runners for their help text, and two callers at once.  The   *)
(* fixtures and the child's results are drawn from a few cases of each     *)
(* kind: a supported and an unsupported format, with and without a debug   *)
(* directory, exit code zero and nonzero, stdout a list, another JSON      *)
(* value, and not JSON.                                                    *)
(***************************************************************************)
MaxCalls == 2

CallFormats == {StateFixture, BlockchainFixture, EOFFixture}
CallPaths == {"a.json"}
CallNames == {"t1"}

SmallResults ==
    {Completed(rc, out, <<"unexpected", "state", "root">>) :
        rc \in {0, 1}, out \in {<<"[", "1", "]">>, <<"1">>, <<"[">>}}

SeveralCallsInit ==
    /\ options \in [evm_bin : Binaries, evm_collect_traces : {FALSE}]
    /\ InitConsume
    /\ InitCaller
    /\ raw_text = <<>>
    /\ mapped = NotClassified

\* consume_fixture returns or raises: the caller has the outcome, the
\* locals of the call are gone.
Finish(c) ==
    /\ call[c].pc = "done"
    /\ log' = Append(log, call[c])
    /\ call' = [call EXCEPT ![c] = IdleCall]
    /\ UNCHANGED <<options, consumer, run_single_test, procs, fs>>
    /\ UNCHANGED <<mapperVars, help_seen, testVars, pluginVars>>

\* GethStatetest.help / GethBlocktest.help
help(runner) == consumer[runner].help_string

\* A help() that asks the binary again.
CallHelp_Reprobe(runner) ==
    /\ consumer.state = "ready"
    /\ call[1].pc = "idle"
    /\ \E h \in HelpResults :
        /\ procs' = Append(procs,
                Proc(0, HelpCommand(consumer[runner].binary, runner), h))
        /\ help_seen' = [runner |-> runner, text |-> h.stdout]
    /\ UNCHANGED <<options, consumer, run_single_test, fs, call>>
    /\ UNCHANGED <<mapperVars, log, testVars, pluginVars>>

\* The caller, between two of its calls, asks a runner for its help text.
CallHelp(runner) ==
    /\ consumer.state = "ready"
    /\ call[1].pc = "idle"
    /\ help_seen' = [runner |-> runner, text |-> help(runner)]
    /\ UNCHANGED consumeVars
    /\ UNCHANGED <<mapperVars, log, testVars, pluginVars>>

SequentialNext ==
    \/ pytest_configure
    \/ /\ Len(log) < MaxCalls
       /\ \E fixture_format \in CallFormats, fixture_path \in CallPaths,
             fixture_name \in CallNames, debug_output_path \in OptDebugDirs :
                ConsumeFixture(1, fixture_format, fixture_path, fixture_name,
                               debug_output_path)
    \/ RunCommandWith(1, SmallResults)
    \/ DebugDump(1)
    \/ CheckResult(1)
    \/ Finish(1)
    \/ \E runner \in {"statetest", "blocktest"} : CallHelp(runner)

SequentialSpec == SeveralCallsInit /\ [][SequentialNext]_vars

ConcurrentNext ==
    \/ pytest_configure
    \/ \E c \in CallerIds :
        \/ \E fixture_format \in CallFormats, fixture_path \in CallPaths,
              fixture_name \in CallNames, debug_output_path \in OptDebugDirs :
                ConsumeFixture(c, fixture_format, fixture_path, fixture_name,
                               debug_output_path)
        \/ RunCommandWith(c, SmallResults)
        \/ DebugDump(c)
        \/ CheckResult(c)

ConcurrentSpec == SeveralCallsInit /\ [][ConcurrentNext]_vars

(***************************************************************************)
(* One test of the consume plugin: its fixture_path is set up, the test    *)
(* hands the path to consume_fixture, and fixture_path is torn down once   *)
(* the test has finished.                                                  *)
(***************************************************************************)
\* test_case.id and test_case.fixture of the cases read from stdin.
CaseIds == {"t1", "a/b"}
CaseFixtures ==
    { <<"{", "\"pass\"", ":", "true", "}">>,
      <<"{", "\"name\"", ":", "1", "}">> }

\* json.dump of a str: the id between double quotes.
Quote(id) == IF id = "t1" THEN "\"t1\"" ELSE "\"a/b\""

\* Path(temp_dir.name) / f"{test_case.id.replace('/','_')}.json"
TempPath(id) == IF id = "t1" THEN "tmp/t1.json" ELSE "tmp/a_b.json"

\* json.dump(to_json(Fixtures({test_case.id: test_case.fixture})), f):
\* one object with the case under its id.
FixturesJson(id, fixture) == <<"{", Quote(id), ":">> \o fixture \o <<"}">>

\* fixture_path up to its yield.
fixture_path_setup ==
    /\ consumer.state = "ready"
    /\ test.pc = "none"
    /\ \E fixture_source \in {"stdin", "fixtures"}, id \in CaseIds,
          fixture \in CaseFixtures, format \in {StateFixture, BlockchainFixture},
          json_path \in Paths :
        IF fixture_source = "stdin"
        THEN /\ tmp' = [state |-> "exists", path |-> TempPath(id),
                        text |-> FixturesJson(id, fixture)]
             /\ test' = [pc |-> "yielded", source |-> fixture_source,
                         id |-> id, fixture |-> fixture, format |-> format,
                         fixture_path |-> TempPath(id)]
        ELSE /\ tmp' = tmp
             /\ test' = [pc |-> "yielded", source |-> fixture_source,
                         id |-> id, fixture |-> fixture, format |-> format,
                         fixture_path |-> json_path]
    /\ UNCHANGED <<consumeVars, mapperVars, callerVars, pluginVars>>

\* The test: consume_fixture on the yielded path, with the case's id as
\* fixture name.
test_fixture ==
    /\ test.pc = "yielded"
    /\ \E debug_output_path \in OptDebugDirs :
        ConsumeFixture(1, test.format, test.fixture_path, test.id,
                       debug_output_path)

\* A fixture_path that cleans up without waiting for the test.
fixture_path_teardown_BeforeTest ==
    /\ test.pc = "yielded"
    /\ tmp' = IF test.source = "stdin"
              THEN [tmp EXCEPT !.state = "removed", !.text = <<>>]
              ELSE tmp
    /\ test' = [test EXCEPT !.pc = "torn down"]
    /\ UNCHANGED <<consumeVars, mapperVars, callerVars, pluginVars>>

\* fixture_path after its yield: it resumes when the test has finished,
\* passed or failed.
fixture_path_teardown ==
    /\ test.pc = "yielded"
    /\ call[1].pc = "done"
    /\ tmp' = IF test.source = "stdin"
              THEN [tmp EXCEPT !.state = "removed", !.text = <<>>]
              ELSE tmp
    /\ test' = [test EXCEPT !.pc = "torn down"]
    /\ UNCHANGED <<consumeVars, mapperVars, callerVars, pluginVars>>

FixturePathNext ==
    \/ pytest_configure
    \/ fixture_path_setup
    \/ test_fixture
    \/ RunCommandWith(1, SmallResults)
    \/ DebugDump(1)
    \/ CheckResult(1)
    \/ fixture_path_teardown

FixturePathSpec == SeveralCallsInit /\ [][FixturePathNext]_vars

(***************************************************************************)
(* test_dump_dir: the debug directory of a test case.  A fixture name is   *)
(* the sequence of its characters, a file name the sequence of its stem    *)
(* parts and suffixes, a directory the sequence of its components.         *)
(***************************************************************************)
MaxCases == 2

\* len(fixture_name) > 142
NameLimit == 142

\* fixture_name[:70] and fixture_name[-70:]
Kept == 70

\* A name of the given length, all "a" but for one character.
MarkedName(len, at, ch) == [k \in 1..len |-> IF k = at THEN ch ELSE "a"]

\* The ids of test cases: short ones, and ones at and over the limit.
FixtureNames ==
    { <<"a", "/", "b">>, <<"a", "-", "b">>, <<"t">> }
        \cup { MarkedName(NameLimit, Kept + 1, "b"),
               MarkedName(NameLimit + 1, 1, "/"),
               MarkedName(NameLimit + 1, Kept, "b"),
               MarkedName(NameLimit + 1, Kept + 1, "b"),
               MarkedName(NameLimit + 1, Kept + 2, "/") }

\* The fixture files: a directory and a file name.
FixtureFiles ==
    { [dir |-> "state_tests", name |-> <<"a", ".json">>],
      [dir |-> "blockchain_tests", name |-> <<"a", ".json">>],
      [dir |-> "state_tests", name |-> <<"a", ".tar", ".json">>] }

BaseDumpDirs == {None, "dumps"}

\* Path.stem: the file name without its last suffix.
Stem(path) ==
    IF Len(path.name) > 1 THEN SubSeq(path.name, 1, Len(path.name) - 1)
    ELSE path.name

\* fixture_name[:70] + "..." + fixture_name[-70:]
Shortened(fixture_name) ==
    SubSeq(fixture_name, 1, Kept) \o <<".", ".", ".">>
        \o SubSeq(fixture_name, Len(fixture_name) - Kept + 1, Len(fixture_name))

\* fixture_name.replace("/", "-")
Replaced(fixture_name) ==
    [k \in DOMAIN fixture_name |->
        IF fixture_name[k] = "/" THEN "-" ELSE fixture_name[k]]

\* test_dump_dir returns None.
NoDir == <<>>

\* A test_dump_dir that shortens a name of exactly the limit as well.
test_dump_dir_ShortenAtLimit(base, single, fixture_path, fixture_name) ==
    IF base = None THEN NoDir
    ELSE IF single
    THEN <<<<base>>, Stem(fixture_path),
           Replaced(IF Len(fixture_name) >= NameLimit
                    THEN Shortened(fixture_name) ELSE fixture_name)>>
    ELSE <<<<base>>, Stem(fixture_path)>>

\* test_dump_dir(request, fixture_path, fixture_name)
test_dump_dir(base, single, fixture_path, fixture_name) ==
    IF base = None THEN NoDir
    ELSE IF single
    THEN <<<<base>>, Stem(fixture_path),
           Replaced(IF Len(fixture_name) > NameLimit
                    THEN Shortened(fixture_name) ELSE fixture_name)>>
    ELSE <<<<base>>, Stem(fixture_path)>>

DumpDirInit ==
    /\ options \in [evm_bin : {"evm"}, evm_collect_traces : {FALSE}]
    /\ InitConsume
    /\ log = <<>>
    /\ help_seen = NoHelpSeen
    /\ tmp = NoTemp
    /\ test = NoTest
    /\ base_dump_dir \in BaseDumpDirs
    /\ dump_dirs = <<>>
    /\ InitExecute
    /\ InitHelpers
    /\ raw_text = <<>>
    /\ mapped = NotClassified

\* pytest resolves test_dump_dir for the next test case.
ResolveDumpDir ==
    /\ consumer.state = "ready"
    /\ Len(dump_dirs) < MaxCases
    /\ \E fixture_path \in FixtureFiles, fixture_name \in FixtureNames :
        dump_dirs' = Append(dump_dirs,
            [ fixture_path |-> fixture_path, fixture_name |-> fixture_name,
              dir |-> test_dump_dir(base_dump_dir, run_single_test,
                                    fixture_path, fixture_name) ])
    /\ UNCHANGED <<consumeVars, mapperVars, callerVars, testVars>>
    /\ UNCHANGED <<base_dump_dir, executeVars, helperVars>>

DumpDirNext ==
    \/ pytest_configure
    \/ ResolveDumpDir

DumpDirSpec == DumpDirInit /\ [][DumpDirNext]_vars

(***************************************************************************)
(* The execute plugin: pytest_configure, and the fixture that runs a test  *)
(* on a live network and refunds the accounts the test funded.             *)
(***************************************************************************)
MaxEoas == 2
MaxGasPrice == 2

\* default_html_report_file_path()
default_html_report_file_path == "./execution_results/report_execute.html"

\* The paths a user gives with --html; None without the flag.
HtmlPaths == {None, "my.html"}

\* refund_gas_limit = 21_000
refund_gas_limit == 21000

\* --default-gas-price, an int
GasPrices == 0..MaxGasPrice

\* The command line of an execute session.
ExecuteOptions ==
    [ state : {"parsed"}, collectonly : BOOLEAN, disable_html : BOOLEAN,
      html_given : HtmlPaths, htmlpath : HtmlPaths,
      default_gas_price : GasPrices ]

\* What eth_rpc.get_balance can answer for an account, around the cost of
\* a refund.
Balances(tx_cost) ==
    {b \in {0, tx_cost - 1, tx_cost, tx_cost + 1, tx_cost + refund_gas_limit} :
        b >= 0}

ExecuteInit ==
    /\ options = [evm_bin |-> None, evm_collect_traces |-> FALSE]
    /\ InitConsume
    /\ log = <<>>
    /\ help_seen = NoHelpSeen
    /\ tmp = NoTemp
    /\ test = NoTest
    /\ InitDumpDirs
    /\ execute_config \in {o \in ExecuteOptions : o.htmlpath = o.html_given}
    /\ execute_test =
            [ pc |-> "none", funded_eoa |-> 0, outcome |-> "none",
              balances |-> <<>>, refund_txs |-> <<>>, rpc |-> <<>> ]
    /\ InitHelpers
    /\ raw_text = <<>>
    /\ mapped = NotClassified

outsideExecute ==
    <<consumeVars, mapperVars, callerVars, testVars, dumpVars, helperVars>>

\* if config.getoption("disable_html") and config.getoption("htmlpath") is None:
\*     config.option.htmlpath = Path(default_html_report_file_path())
HtmlPathAfter(config) ==
    IF config.disable_html /\ config.htmlpath = None
    THEN default_html_report_file_path
    ELSE config.htmlpath

\* pytest_configure of the execute plugin: it returns early when only
\* collecting, and exits the session on an unsupported solc version.
execute_pytest_configure ==
    /\ execute_config.state = "parsed"
    /\ \E solc_supported \in BOOLEAN :
        execute_config' =
            IF execute_config.collectonly
            THEN [execute_config EXCEPT !.state = "collecting"]
            ELSE [execute_config EXCEPT
                    !.htmlpath = HtmlPathAfter(execute_config),
                    !.state = IF solc_supported THEN "configured" ELSE "exited"]
    /\ UNCHANGED execute_test
    /\ UNCHANGED outsideExecute

\* base_test_parametrizer_func up to its yield.
execute_setup ==
    /\ execute_config.state = "configured"
    /\ execute_test.pc = "none"
    /\ execute_test' = [execute_test EXCEPT
            !.pc = "yielded",
            !.rpc = Append(@, [op |-> "get_balance", of |-> 0])]
    /\ UNCHANGED execute_config
    /\ UNCHANGED outsideExecute

\* The test function: it funds some accounts, and passes or fails.
execute_test_body ==
    /\ execute_test.pc = "yielded"
    /\ \E n \in 0..MaxEoas, outcome \in {"passed", "failed"} :
        execute_test' = [execute_test EXCEPT
            !.pc = "teardown", !.funded_eoa = n, !.outcome = outcome]
    /\ UNCHANGED execute_config
    /\ UNCHANGED outsideExecute

\* Transaction(sender=eoa, to=pre._sender, gas_limit=21_000,
\*             gas_price=default_gas_price, value=...)
RefundTx(eoa, default_gas_price, value) ==
    [ sender |-> eoa, to |-> 0, gas_limit |-> refund_gas_limit,
      gas_price |-> default_gas_price, value |-> value ]

\* A loop body that refunds whatever the balance is.
Refund_Unchecked(refund_txs, eoa, remaining_balance, default_gas_price) ==
    LET tx_cost == refund_gas_limit * default_gas_price
    IN  Append(refund_txs,
               RefundTx(eoa, default_gas_price, remaining_balance - tx_cost))

\* The body of the refund loop for one account, after its balance was read.
Refund(refund_txs, eoa, remaining_balance, default_gas_price) ==
    LET tx_cost == refund_gas_limit * default_gas_price
    IN  IF remaining_balance < tx_cost THEN refund_txs
        ELSE Append(refund_txs,
                RefundTx(eoa, default_gas_price, remaining_balance - tx_cost))

\* One round of "for eoa in pre._funded_eoa": the balance is read, the
\* refund is built or not.
execute_refund_eoa ==
    /\ execute_test.pc = "teardown"
    /\ Len(execute_test.balances) < execute_test.funded_eoa
    /\ LET eoa == Len(execute_test.balances) + 1
           price == execute_config.default_gas_price
       IN  \E remaining_balance \in Balances(refund_gas_limit * price) :
            execute_test' = [execute_test EXCEPT
                !.balances = Append(@, remaining_balance),
                !.rpc = Append(@, [op |-> "get_balance", of |-> eoa]),
                !.refund_txs = Refund(@, eoa, remaining_balance, price)]
    /\ UNCHANGED execute_config
    /\ UNCHANGED outsideExecute

\* eth_rpc.send_wait_transactions(refund_txs), and the end of the fixture.
execute_send_refunds ==
    /\ execute_test.pc = "teardown"
    /\ Len(execute_test.balances) = execute_test.funded_eoa
    /\ execute_test' = [execute_test EXCEPT
            !.pc = "done",
            !.rpc = @ \o << [op |-> "send_wait_transactions",
                            of |-> Len(execute_test.refund_txs)],
                           [op |-> "get_balance", of |-> 0] >>]
    /\ UNCHANGED execute_config
    /\ UNCHANGED outsideExecute

ExecuteNext ==
    \/ execute_pytest_configure
    \/ execute_setup
    \/ execute_test_body
    \/ execute_refund_eoa
    \/ execute_send_refunds

ExecuteSpec == ExecuteInit /\ [][ExecuteNext]_vars

(***************************************************************************)
(* ScenariosCallCombinations: the scenarios that put a program behind one  *)
(* or two calls, with the environment the program is expected to see.      *)
(***************************************************************************)
\* AddressBalance
root_call_value == 1
first_call_value == 3
second_call_value == 5
root_contract_balance == 105
scenario_contract_balance == 107
sub_contract_balance == 111
program_selfbalance == 113

LegacyCalls == {"CALL", "CALLCODE", "DELEGATECALL", "STATICCALL"}

\* The orders a set of opcodes can be listed in.
Orders(ops) ==
    {s \in [1..Cardinality(ops) -> ops] :
        \A a, b \in 1..Cardinality(ops) : a # b => s[a] # s[b]}

Legacy(s) == [k \in DOMAIN s |-> [op |-> s[k], evm_type |-> "LEGACY"]]

\* input.fork.call_opcodes(): the (opcode, evm type) pairs of a fork, for
\* the forks before and after DELEGATECALL and STATICCALL, and for a fork
\* with EOF calls.
ForkCallOpcodes ==
    {Legacy(s) : s \in Orders({"CALL", "CALLCODE"})}
        \cup {Legacy(s) : s \in Orders({"CALL", "CALLCODE", "DELEGATECALL"})}
        \cup {Legacy(s) : s \in Orders(LegacyCalls)}
        \cup {<<[op |-> "EXTCALL", evm_type |-> "EOF_V1"]>> \o Legacy(s)
                \o <<[op |-> "EXTSTATICCALL", evm_type |-> "EOF_V1"]>> :
                    s \in Orders(LegacyCalls)}

\* [callcode for callcode, evm_type in ... if evm_type == EVMCodeType.LEGACY]
LegacyOf(call_opcodes) ==
    LET kept == SelectSeq(call_opcodes, LAMBDA c : c.evm_type = "LEGACY")
    IN  [k \in DOMAIN kept |-> kept[k].op]

\* ScenarioEnvironment of the one-call scenario.
OneCallEnvironment(first_call) ==
    [ code_address |->
        IF first_call = "CALLCODE" \/ first_call = "DELEGATECALL"
        THEN "scenario_contract" ELSE "operation_contract",
      code_caller |->
        IF first_call = "DELEGATECALL" THEN "root_contract"
        ELSE "scenario_contract",
      selfbalance |->
        IF first_call \in {"DELEGATECALL", "CALLCODE"}
        THEN scenario_contract_balance
        ELSE IF first_call = "STATICCALL" THEN program_selfbalance
        ELSE first_call_value + program_selfbalance,
      call_value |->
        IF first_call \in {"STATICCALL", "DELEGATECALL"} THEN 0
        ELSE first_call_value,
      has_static |-> (first_call = "STATICCALL") ]

\* _compute_code_caller
compute_code_caller(first_call, second_call) ==
    LET by_first ==
            IF first_call = "DELEGATECALL"
            THEN IF second_call = "DELEGATECALL" THEN "root_contract"
                 ELSE "scenario_contract"
            ELSE IF second_call = "DELEGATECALL" THEN "scenario_contract"
                 ELSE "sub_contract"
    IN  IF first_call = "CALLCODE" THEN "scenario_contract" ELSE by_first

\* second_call_value = balance.second_call_value if first_call != Op.STATICCALL else 0
SecondCallValue(first_call) ==
    IF first_call # "STATICCALL" THEN second_call_value ELSE 0

\* A _compute_selfbalance without the case of CALL as first call.
compute_selfbalance_NoCallFirst(first_call, second_call) ==
    IF second_call = "CALL"
    THEN SecondCallValue(first_call) + program_selfbalance
    ELSE IF second_call = "STATICCALL" THEN program_selfbalance
    ELSE LET s0 == 0
             s1 == IF first_call = "STATICCALL"
                      /\ second_call \in {"DELEGATECALL", "CALLCODE"}
                   THEN sub_contract_balance ELSE s0
             s2 == IF first_call \in {"CALLCODE", "DELEGATECALL"}
                      /\ second_call \in {"DELEGATECALL", "CALLCODE"}
                   THEN scenario_contract_balance + root_call_value ELSE s1
         IN  s2

\* _compute_selfbalance: the ifs of the code in their order, from the
\* default 0.
compute_selfbalance(first_call, second_call) ==
    IF second_call = "CALL"
    THEN SecondCallValue(first_call) + program_selfbalance
    ELSE IF second_call = "STATICCALL" THEN program_selfbalance
    ELSE LET s0 == 0
             s1 == IF first_call = "STATICCALL"
                      /\ second_call \in {"DELEGATECALL", "CALLCODE"}
                   THEN sub_contract_balance ELSE s0
             s2 == IF first_call \in {"CALLCODE", "DELEGATECALL"}
                      /\ second_call \in {"DELEGATECALL", "CALLCODE"}
                   THEN scenario_contract_balance + root_call_value ELSE s1
             s3 == IF first_call = "CALL"
                      /\ second_call \in {"DELEGATECALL", "CALLCODE"}
                   THEN sub_contract_balance + first_call_value ELSE s2
             s4 == IF first_call = "STATICCALL" /\ second_call = "STATICCALL"
                   THEN program_selfbalance ELSE s3
         IN  s4

\* _compute_callvalue
compute_callvalue(first_call, second_call) ==
    IF second_call = "STATICCALL" THEN 0
    ELSE IF second_call = "DELEGATECALL"
    THEN IF first_call = "STATICCALL" THEN 0
         ELSE IF first_call = "DELEGATECALL" THEN root_call_value
         ELSE first_call_value
    ELSE SecondCallValue(first_call)

\* ScenarioEnvironment of the two-call scenario.
TwoCallEnvironment(first_call, second_call) ==
    [ code_address |->
        IF second_call \notin {"CALLCODE", "DELEGATECALL"}
        THEN "operation_contract"
        ELSE IF first_call \notin {"CALLCODE", "DELEGATECALL"}
        THEN "sub_contract" ELSE "scenario_contract",
      code_caller |-> compute_code_caller(first_call, second_call),
      selfbalance |-> compute_selfbalance(first_call, second_call),
      call_value |-> compute_callvalue(first_call, second_call),
      has_static |-> (first_call = "STATICCALL" \/ second_call = "STATICCALL") ]

\* Scenario(name=..., env=...)
Scenario(first_call, second_call, env) ==
    [first_call |-> first_call, second_call |-> second_call, env |-> env]

ScenariosInit ==
    /\ options = [evm_bin |-> None, evm_collect_traces |-> FALSE]
    /\ InitConsume
    /\ log = <<>>
    /\ help_seen = NoHelpSeen
    /\ tmp = NoTemp
    /\ test = NoTest
    /\ InitDumpDirs
    /\ InitExecute
    /\ scenario_gen \in
        {[NoGenerator EXCEPT !.state = "input", !.call_opcodes = ops] :
            ops \in ForkCallOpcodes}
    /\ fee = NoFee
    /\ raw_text = <<>>
    /\ mapped = NotClassified

outsideScenarios ==
    <<consumeVars, mapperVars, callerVars, testVars, dumpVars, executeVars, fee>>

\* ScenariosCallCombinations.__init__
ScenariosCallCombinations ==
    /\ scenario_gen.state = "input"
    /\ scenario_gen' = [scenario_gen EXCEPT
            !.state = "generating",
            !.first_calls = LegacyOf(scenario_gen.call_opcodes),
            !.second_calls = Append(LegacyOf(scenario_gen.call_opcodes), "NOOP")]
    /\ UNCHANGED outsideScenarios

\* The loop variables after one round of the inner loop of generate.
NextRound(gen) ==
    IF gen.j < Len(gen.second_calls) THEN [gen EXCEPT !.j = @ + 1]
    ELSE [gen EXCEPT !.i = @ + 1, !.j = 1]

\* generate, a round with second_call == Op.NOOP
generate_one_call_scenarios ==
    /\ scenario_gen.state = "generating"
    /\ scenario_gen.i <= Len(scenario_gen.first_calls)
    /\ scenario_gen.second_calls[scenario_gen.j] = "NOOP"
    /\ LET first_call == scenario_gen.first_calls[scenario_gen.i]
       IN  scenario_gen' = NextRound([scenario_gen EXCEPT
                !.list = Append(@, Scenario(first_call, "NOOP",
                                    OneCallEnvironment(first_call)))])
    /\ UNCHANGED outsideScenarios

\* generate, a round with another second_call
generate_two_call_scenarios ==
    /\ scenario_gen.state = "generating"
    /\ scenario_gen.i <= Len(scenario_gen.first_calls)
    /\ scenario_gen.second_calls[scenario_gen.j] # "NOOP"
    /\ LET first_call == scenario_gen.first_calls[scenario_gen.i]
           second_call == scenario_gen.second_calls[scenario_gen.j]
       IN  scenario_gen' = NextRound([scenario_gen EXCEPT
                !.list = Append(@, Scenario(first_call, second_call,
                                    TwoCallEnvironment(first_call, second_call)))])
    /\ UNCHANGED outsideScenarios

\* generate returns the list.
generate_return ==
    /\ scenario_gen.state = "generating"
    /\ scenario_gen.i > Len(scenario_gen.first_calls)
    /\ scenario_gen' = [scenario_gen EXCEPT !.state = "returned"]
    /\ UNCHANGED outsideScenarios

ScenariosNext ==
    \/ ScenariosCallCombinations
    \/ generate_one_call_scenarios
    \/ generate_two_call_scenarios
    \/ generate_return

ScenariosSpec == ScenariosInit /\ [][ScenariosNext]_vars

(***************************************************************************)
(* EIP-7002 Spec: the withdrawal request fee.  Python's int has no width   *)
(* and // rounds down.                                                     *)
(***************************************************************************)
MaxFactor == 2
MaxNumerator == 5
MaxDenominator == 2
MaxExcess == 3

MIN_WITHDRAWAL_REQUEST_FEE == 1
WITHDRAWAL_REQUEST_FEE_UPDATE_FRACTION == 17

\* The calls: fake_exponential(factor, numerator, denominator) with
\* factor >= 0, numerator >= 0, denominator >= 1, and get_fee(excess).
FeeCalls ==
    { [NoFee EXCEPT !.pc = "called", !.entry = "fake_exponential",
                    !.factor = f, !.numerator = n, !.denominator = d] :
        f \in 0..MaxFactor, n \in 0..MaxNumerator, d \in 1..MaxDenominator }
    \cup
    { [NoFee EXCEPT !.pc = "called", !.entry = "get_fee", !.excess = x] :
        x \in 0..MaxExcess }

FeeInit ==
    /\ options = [evm_bin |-> None, evm_collect_traces |-> FALSE]
    /\ InitConsume
    /\ log = <<>>
    /\ help_seen = NoHelpSeen
    /\ tmp = NoTemp
    /\ test = NoTest
    /\ InitDumpDirs
    /\ InitExecute
    /\ scenario_gen = NoGenerator
    /\ fee \in FeeCalls
    /\ raw_text = <<>>
    /\ mapped = NotClassified

outsideFee ==
    <<consumeVars, mapperVars, callerVars, testVars, dumpVars, executeVars,
      scenario_gen>>

\* i = 1; output = 0; numerator_accumulator = factor * denominator
Entered(made, factor, numerator, denominator) ==
    [made EXCEPT
        !.pc = "loop", !.factor = factor, !.numerator = numerator,
        !.denominator = denominator, !.i = 1, !.output = 0,
        !.numerator_accumulator = factor * denominator]

\* Spec.get_fee: the call of fake_exponential.
get_fee ==
    /\ fee.pc = "called"
    /\ fee.entry = "get_fee"
    /\ fee' = Entered(fee, MIN_WITHDRAWAL_REQUEST_FEE, fee.excess,
                      WITHDRAWAL_REQUEST_FEE_UPDATE_FRACTION)
    /\ UNCHANGED outsideFee

\* Spec.fake_exponential, up to the loop.
fake_exponential ==
    /\ fee.pc = "called"
    /\ fee.entry = "fake_exponential"
    /\ fee' = Entered(fee, fee.factor, fee.numerator, fee.denominator)
    /\ UNCHANGED outsideFee

\* An accumulator that is rounded up.
NextAccumulator_RoundedUp(numerator_accumulator, numerator, denominator, i) ==
    (numerator_accumulator * numerator + denominator * i - 1)
        \div (denominator * i)

\* (numerator_accumulator * numerator) // (denominator * i)
NextAccumulator(numerator_accumulator, numerator, denominator, i) ==
    (numerator_accumulator * numerator) \div (denominator * i)

\* One round of "while numerator_accumulator > 0".
fake_exponential_round ==
    /\ fee.pc = "loop"
    /\ fee.numerator_accumulator > 0
    /\ fee' = [fee EXCEPT
            !.output = @ + fee.numerator_accumulator,
            !.numerator_accumulator =
                NextAccumulator(@, fee.numerator, fee.denominator, fee.i),
            !.i = @ + 1]
    /\ UNCHANGED outsideFee

\* return output // denominator
fake_exponential_return ==
    /\ fee.pc = "loop"
    /\ ~(fee.numerator_accumulator > 0)
    /\ fee' = [fee EXCEPT !.pc = "returned",
                          !.result = fee.output \div fee.denominator]
    /\ UNCHANGED outsideFee

FeeNext ==
    \/ get_fee
    \/ fake_exponential
    \/ fake_exponential_round
    \/ fake_exponential_return

\* A call that was made runs on: nothing else stops it.
FeeSpec == FeeInit /\ [][FeeNext]_vars /\ WF_vars(FeeNext)

(***************************************************************************)
(* Properties.                                                             *)
(***************************************************************************)
\* text begins with the token sequence pre / ends with suf.
StartsWith(text, pre) ==
    Len(text) >= Len(pre) /\ SubSeq(text, 1, Len(pre)) = pre
EndsWith(text, suf) ==
    Len(text) >= Len(suf)
        /\ SubSeq(text, Len(text) - Len(suf) + 1, Len(text)) = suf

\* The child processes caller c started or tried to start.
ProcsOf(c) == SelectSeq(procs, LAMBDA p : p.by = c)

\* The call's child process ran to completion.
ChildRan(cl) == cl.pc \in {"ran", "dumped", "done"} /\ cl.result.started

\* The error raised for a failing test (nonzero exit).
IsInvocationError(o) ==
    /\ o.kind = "raise"
    /\ o.exc = "Exception"
    /\ StartsWith(o.msg, <<"Unexpected exit code:\n">>)

\* C1: consume_fixture with a format that is not consumable, or that has no
\* runner, raises the unsupported-format error without spawning a child
\* process and without writing a debug bundle.
C1_UnsupportedFormatFailsFast ==
    \A c \in CallerIds :
        LET cl == call[c]
        IN  (cl.pc # "idle"
                /\ (~is_consumable(cl.fixture_format)
                        \/ RunnerFor(cl.fixture_format) = None))
            => /\ cl.pc = "done"
               /\ cl.outcome.kind = "raise"
               /\ cl.outcome.exc = "NotImplementedError"
               /\ ProcsOf(c) = <<>>
               /\ \A d \in DebugDirs : fs[d] = EmptyDir

\* C2: in both runners a nonzero exit code makes consume raise the
\* invocation error, which carries the spawned command line and the child's
\* stderr unchanged; nothing is returned.
C2_NonzeroExitRaises ==
    \A c \in CallerIds :
        LET cl == call[c]
        IN  (cl.pc = "done" /\ cl.result.started /\ cl.result.returncode # 0)
            => /\ IsInvocationError(cl.outcome)
               /\ cl.outcome.value = <<>>
               /\ Len(ProcsOf(c)) = 1
               /\ Contains(cl.outcome.msg, Join(ProcsOf(c)[1].cmd))
               /\ EndsWith(cl.outcome.msg, cl.result.stderr)
               /\ Len(cl.outcome.msg)
                    >= 2 + Len(Join(ProcsOf(c)[1].cmd)) + Len(cl.result.stderr)

C2_Witness ==
    \E c \in CallerIds :
        /\ call[c].pc = "done"
        /\ options.evm_bin # None
        /\ call[c].fixture_format = BlockchainFixture
        /\ call[c].result.started
        /\ call[c].result.returncode # 0
        /\ call[c].result.stderr = <<"unexpected", "state", "root">>
        /\ Contains(call[c].outcome.msg, <<"unexpected", "state", "root">>)

\* The texts of the top-level items of an array text "[" ... "]".
RECURSIVE SplitItems(_, _, _)
SplitItems(rest, depth, cur) ==
    IF rest = <<>> THEN <<cur>>
    ELSE LET t == Head(rest)
         IN  IF t = "," /\ depth = 0
             THEN <<cur>> \o SplitItems(Tail(rest), 0, <<>>)
             ELSE SplitItems(Tail(rest),
                      depth + (IF t \in {"[", "{"} THEN 1
                               ELSE IF t \in {"]", "}"} THEN -1 ELSE 0),
                      Append(cur, t))

ArrayItemTexts(text) ==
    IF Len(text) = 2 THEN <<>>
    ELSE SplitItems(SubSeq(text, 2, Len(text) - 1), 0, <<>>)

WellFormedArray(text) == json_loads(text).ok /\ Head(text) = "["

\* C3: the state-test runner, on exit code 0 and a well-formed JSON array on
\* stdout, returns that array: one item per record of the text, in the
\* text's order, each the value of its record.
C3_StatetestReturnsArray ==
    \A c \in CallerIds :
        LET cl == call[c]
            items == ArrayItemTexts(cl.result.stdout)
        IN  (cl.pc = "done" /\ cl.fixture_format = StateFixture
                /\ cl.result.started /\ cl.result.returncode = 0
                /\ WellFormedArray(cl.result.stdout))
            => /\ cl.outcome.kind = "return"
               /\ IsList(cl.outcome.value)
               /\ Len(cl.outcome.value[2]) = Len(items)
               /\ \A i \in 1..Len(items) :
                    /\ json_loads(items[i]).ok
                    /\ cl.outcome.value[2][i] = json_loads(items[i]).val

C3_Witness ==
    \E c \in CallerIds :
        /\ call[c].pc = "done"
        /\ options.evm_bin # None
        /\ call[c].fixture_format = StateFixture
        /\ call[c].result.returncode = 0
        /\ call[c].result.stdout =
            <<"[", "{", "\"name\"", ":", "\"t1\"", ",", "\"pass\"", ":",
              "true", "}", "]">>
        /\ call[c].outcome =
            Return(PyList(<< PyDict(<< <<"\"name\"", PyAtom("str", "\"t1\"")>>,
                                       <<"\"pass\"", PyAtom("bool", "true")>> >>) >>))

\* C4: the state-test runner, on exit code 0 and a stdout that is not a
\* JSON array, raises an error that is not the invocation error of a
\* failing test, and returns nothing.
C4_NotAnArrayRaises ==
    \A c \in CallerIds :
        LET cl == call[c]
        IN  (cl.pc = "done" /\ cl.fixture_format = StateFixture
                /\ cl.result.started /\ cl.result.returncode = 0
                /\ ~WellFormedArray(cl.result.stdout))
            => /\ cl.outcome.kind = "raise"
               /\ cl.outcome.value = <<>>
               /\ ~IsInvocationError(cl.outcome)
               /\ \/ cl.outcome.exc = "JSONDecodeError"
                  \/ StartsWith(cl.outcome.msg,
                         <<"Unexpected result from evm statetest: ">>)

C4_Witness ==
    \E c \in CallerIds :
        /\ call[c].pc = "done"
        /\ options.evm_bin # None
        /\ call[c].fixture_format = StateFixture
        /\ call[c].result.started
        /\ call[c].result.returncode = 0
        /\ call[c].result.stdout = <<"{", "\"name\"", ":", "\"t1\"", "}">>
        /\ call[c].outcome.kind = "raise"

\* C5: the chain-test runner's verdict is the exit code alone: exit code 0
\* returns the empty outcome whatever stdout and stderr hold, a nonzero code
\* raises whatever they hold.
C5_BlocktestVerdictIsExitCode ==
    \A c \in CallerIds :
        LET cl == call[c]
        IN  (cl.pc = "done" /\ cl.fixture_format = BlockchainFixture
                /\ cl.result.started)
            => /\ cl.result.returncode = 0 => cl.outcome = Return(PyList(<<>>))
               /\ cl.result.returncode # 0 => cl.outcome.kind = "raise"

C5_Witness ==
    \E c \in CallerIds :
        /\ call[c].pc = "done"
        /\ options.evm_bin # None
        /\ call[c].fixture_format = BlockchainFixture
        /\ call[c].result.started
        /\ call[c].result.returncode = 0
        /\ call[c].result.stdout = <<"not", "json">>
        /\ call[c].result.stderr # <<>>
        /\ call[c].outcome.kind = "return"

\* C7: is_consumable answers true exactly for a format whose binary role
\* was configured at construction (the state-test and chain-test roles from
\* --evm-bin, the object-format role never), and the answer is the same in
\* every state of the consumer's lifetime.
C7_ConsumableIffConfigured ==
    consumer.state = "ready"
    => /\ is_consumable(StateFixture) <=> (options.evm_bin # None)
       /\ is_consumable(BlockchainFixture) <=> (options.evm_bin # None)
       /\ ~is_consumable(EOFFixture)
       /\ ~is_consumable(BlockchainEngineFixture)

C7_Witness ==
    /\ consumer.state = "ready"
    /\ options.evm_bin # None
    /\ is_consumable(StateFixture)
    /\ ~is_consumable(EOFFixture)
    /\ call[1].pc = "done"
    /\ call[1].outcome.kind = "raise"

\* C8: the chain-test command holds "--run <case_name>" exactly when a case
\* name was supplied and the probed help text advertises "--run".
C8_RunFilterOnlyIfAdvertised ==
    \A c \in CallerIds :
        LET cl == call[c]
        IN  (cl.pc # "idle" /\ cl.fixture_format = BlockchainFixture)
            => (Contains(cl.command, <<"--run">>)
                    <=> (Truthy(cl.fixture_name)
                            /\ Contains(consumer.blocktest.help_string,
                                        <<"--run">>)))

\* All the files of a bundle are in the directory.
BundlePresent(dir) ==
    /\ \A n \in FileNames : dir[n].present
    /\ dir["consume_direct.sh"].exec

\* C9: with a debug directory, the bundle is written once the child has
\* completed and before the exit code is examined, and it is there when the
\* call returns or raises, whatever the outcome.
C9_BundleWrittenWhateverOutcome ==
    \A c \in CallerIds :
        LET cl == call[c]
        IN  (cl.pc # "idle" /\ cl.debug_output_path # None)
            => LET dir == fs[cl.debug_output_path]
               IN  /\ (cl.pc \in {"dumped", "done"} /\ cl.result.started)
                        => /\ BundlePresent(dir)
                           /\ dir["consume_direct_stdout.txt"].text
                                = cl.result.stdout
                   /\ cl.pc = "dumped" => cl.outcome = NoOutcome
                   /\ (cl.pc \in {"built", "ran"} \/ ~cl.result.started)
                        => dir = EmptyDir

C9_Witness ==
    \E c \in CallerIds :
        /\ call[c].pc = "done"
        /\ options.evm_bin # None
        /\ call[c].debug_output_path # None
        /\ call[c].result.returncode = 0
        /\ call[c].outcome.exc = "JSONDecodeError"
        /\ BundlePresent(fs[call[c].debug_output_path])

\* The number a decimal text denotes.
DigitValue(tok) == CHOOSE n \in 0..9 : Digit(n) = tok

RECURSIVE TextInt(_)
TextInt(text) ==
    IF Len(text) = 1 THEN DigitValue(text[1])
    ELSE 10 * TextInt(SubSeq(text, 1, Len(text) - 1)) + DigitValue(text[Len(text)])

\* C10: after a failing invocation with a debug directory the bundle holds
\* the script, the exit code, stdout, stderr and the fixture copy; the
\* recorded exit code, stdout and stderr are those of that invocation's
\* child and the copy is the content of the consumed fixture file.
C10_BundleComplete ==
    \A c \in CallerIds :
        LET cl == call[c]
        IN  (cl.pc = "done" /\ cl.debug_output_path # None
                /\ cl.result.started /\ cl.outcome.kind = "raise")
            => LET dir == fs[cl.debug_output_path]
               IN  /\ dir["consume_direct.sh"].present
                   /\ dir["consume_direct.sh"].exec
                   /\ dir["consume_direct_returncode.txt"].present
                   /\ TextInt(dir["consume_direct_returncode.txt"].text)
                        = cl.result.returncode
                   /\ dir["consume_direct_stdout.txt"].present
                   /\ dir["consume_direct_stdout.txt"].text = cl.result.stdout
                   /\ dir["consume_direct_stderr.txt"].present
                   /\ dir["consume_direct_stderr.txt"].text = cl.result.stderr
                   /\ dir["fixtures.json"].present
                   /\ dir["fixtures.json"].text
                        = <<FixtureContent(cl.fixture_path)>>

C10_Witness ==
    \E c \in CallerIds :
        /\ call[c].pc = "done"
        /\ options.evm_bin # None
        /\ call[c].debug_output_path # None
        /\ call[c].fixture_path = "b.json"
        /\ call[c].result.started
        /\ call[c].result.returncode # 0
        /\ call[c].result.stdout # <<>>
        /\ call[c].result.stderr # <<>>
        /\ call[c].outcome.kind = "raise"
        /\ fs[call[c].debug_output_path]["fixtures.json"].text = <<"{fixture B}">>

\* The entries whose message is a part of the text.
Hits(text) ==
    {i \in 1..Len(mapping_data) : Contains(text, mapping_data[i].message)}

\* C6: classification is first-match-wins: the kind of the lowest-index
\* entry whose message is a part of the text, "unmapped" when there is none;
\* "intrinsic gas too low" classifies to INTRINSIC_GAS_TOO_LOW.
C6_FirstMatchWins ==
    mapped # NotClassified
    => /\ Hits(raw_text) = {} => mapped = Unmapped
       /\ Hits(raw_text) # {}
            => \E i \in Hits(raw_text) :
                /\ \A j \in Hits(raw_text) : i <= j
                /\ mapped = mapping_data[i].exception
       /\ (Contains(raw_text, <<"intrinsic", "gas", "too", "low">>)
                /\ Cardinality(Hits(raw_text)) = 1)
            => mapped = "TransactionException.INTRINSIC_GAS_TOO_LOW"

C6_Witness ==
    /\ mapped = "TransactionException.TYPE_3_TX_MAX_BLOB_GAS_ALLOWANCE_EXCEEDED"
    /\ Cardinality(Hits(raw_text)) = 3
    /\ 8 \in Hits(raw_text)

\* The words of a line "w1 w2 ... wn": one token a word, one space between
\* two words; a line of another shape is cut at the place it goes wrong.
RECURSIVE SplitWords(_)
SplitWords(line) ==
    IF Len(line) <= 1 THEN line
    ELSE IF line[2] = " "
    THEN <<line[1]>> \o SplitWords(SubSeq(line, 3, Len(line)))
    ELSE <<line[1]>>

\* The arguments of the command line a reproduction script runs: the
\* second line of "#!/bin/bash\n<command line>\n".
ScriptCommand(text) ==
    IF /\ Len(text) >= 3
       /\ text[1] = "#!/bin/bash"
       /\ text[2] = "\n"
       /\ text[Len(text)] = "\n"
    THEN SplitWords(SubSeq(text, 3, Len(text) - 1))
    ELSE <<>>

\* The call wrote its bundle: a debug directory was given and the child ran.
BundleWritten(cl) ==
    /\ cl.pc \in {"dumped", "done"}
    /\ cl.debug_output_path # None
    /\ cl.result.started

\* C11 (as stated): the command of the bundle's script is the command line
\* the child of that invocation was spawned with, argument for argument.
C11_ScriptIsSpawnedCommand ==
    \A c \in CallerIds :
        LET cl == call[c]
        IN  BundleWritten(cl)
            => ScriptCommand(fs[cl.debug_output_path]["consume_direct.sh"].text)
                    = ProcsOf(c)[1].cmd

\* C11 (amended): the command of the bundle's script is the spawned command
\* line, argument for argument, up to the last argument; the last argument,
\* the path of the consumed fixture, is replaced by the path of the bundle's
\* copy, <debug directory>/fixtures.json.
C11_ScriptIsSpawnedCommandOnCopy ==
    \A c \in CallerIds :
        LET cl == call[c]
        IN  BundleWritten(cl)
            => LET args == ScriptCommand(
                        fs[cl.debug_output_path]["consume_direct.sh"].text)
                   cmd == ProcsOf(c)[1].cmd
                   n == Len(cmd)
               IN  /\ Len(args) = n
                   /\ \A i \in 1..(n - 1) : args[i] = cmd[i]
                   /\ cmd[n] = Str(cl.fixture_path)
                   /\ args[n] = DebugFixturePath(cl.debug_output_path)

C11_Witness ==
    \E c \in CallerIds :
        /\ call[c].pc = "done"
        /\ options.evm_bin # None
        /\ call[c].fixture_format = BlockchainFixture
        /\ call[c].fixture_name = "t1"
        /\ call[c].fixture_path = "a.json"
        /\ BundleWritten(call[c])
        /\ ScriptCommand(fs[call[c].debug_output_path]["consume_direct.sh"].text)
            = <<"evm", "--debug", "--json", "--verbosity", "100", "blocktest",
                "--run", "t1", "dump/fixtures.json">>
        /\ ProcsOf(c)[1].cmd[9] = "a.json"

\* The command line holds the flag as one of its arguments.
HasFlag(command, flag) == \E i \in 1..Len(command) : command[i] = flag

\* C12: without a debug directory a consume call writes no file (every
\* directory stays without entries) and its command line, as built and as
\* spawned, holds none of --debug, --json, --verbosity; each of the three
\* flags is in the command exactly when a debug directory was supplied.
C12_NoDebugDirNoTrace ==
    \A c \in CallerIds :
        LET cl == call[c]
            cmds == {cl.command} \cup
                    {ProcsOf(c)[i].cmd : i \in 1..Len(ProcsOf(c))}
        IN  (cl.pc # "idle" /\ RunnerFor(cl.fixture_format) # None)
            => /\ cl.debug_output_path = None
                    => /\ \A d \in DebugDirs : fs[d] = EmptyDir
                       /\ \A cmd \in cmds :
                            /\ ~HasFlag(cmd, "--debug")
                            /\ ~HasFlag(cmd, "--json")
                            /\ ~HasFlag(cmd, "--verbosity")
               /\ \A cmd \in cmds :
                    \A flag \in {"--debug", "--json", "--verbosity"} :
                        HasFlag(cmd, flag) <=> cl.debug_output_path # None

C12_Witness ==
    \E c \in CallerIds :
        /\ call[c].pc = "done"
        /\ options.evm_bin # None
        /\ call[c].fixture_format = StateFixture
        /\ call[c].debug_output_path = None
        /\ call[c].result.started
        /\ call[c].result.returncode # 0
        /\ ProcsOf(c)[1].cmd = <<"evm", "statetest", "a.json">>
        /\ \A d \in DebugDirs : fs[d] = EmptyDir

\* The finished calls that were routed to a runner.
RoutedCalls == {i \in 1..Len(log) : RunnerFor(log[i].fixture_format) # None}

\* C13: every consume_fixture call for a supported format spawns exactly one
\* child: the children of the caller are one per finished call plus the one
\* of the call in progress once it has run its command, whatever the
\* earlier calls ended with (nonzero exit, parse failure, spawn failure);
\* the call has no outcome before its child was spawned, and returns only
\* after the child has completed.
C13_OneChildPerCall ==
    LET cl == call[1]
        mine == ProcsOf(1)
        routed == cl.pc # "idle" /\ RunnerFor(cl.fixture_format) # None
        current == IF routed /\ cl.pc \in {"ran", "dumped", "done"}
                   THEN 1 ELSE 0
    IN  /\ Len(mine) = Cardinality(RoutedCalls) + current
        /\ current = 1 => /\ mine[Len(mine)].cmd = cl.command
                          /\ mine[Len(mine)].started = cl.result.started
        /\ (routed /\ cl.outcome # NoOutcome) => current = 1
        /\ cl.outcome.kind = "return" => cl.result.started
        /\ \A i \in RoutedCalls :
            /\ log[i].outcome # NoOutcome
            /\ log[i].outcome.kind = "return" => log[i].result.started

C13_Witness ==
    /\ Len(log) = 2
    /\ log[1].fixture_format = StateFixture
    /\ log[1].result.returncode # 0
    /\ log[1].outcome.kind = "raise"
    /\ log[2].fixture_format = StateFixture
    /\ ~log[2].result.started
    /\ log[2].outcome = SpawnFailure
    /\ Len(ProcsOf(1)) = 2

\* Why a finished call failed: the child never started, it exited with a
\* nonzero code, or it exited with 0 and its output was not accepted.
FailureCause(cl) ==
    IF cl.outcome.kind # "raise" \/ RunnerFor(cl.fixture_format) = None
    THEN "none"
    ELSE IF ~cl.result.started THEN "spawn"
    ELSE IF cl.result.returncode # 0 THEN "invocation"
    ELSE "parse"

\* C14: a call whose child cannot be started fails, and the kind of the
\* error alone tells the three causes of failure apart: two failed calls
\* with different causes (spawn, nonzero exit, exit 0 with a wrong output)
\* never raise the same kind of error.
C14_FailureCausesDistinctByKind ==
    /\ \A i \in 1..Len(log) :
        (RunnerFor(log[i].fixture_format) # None /\ ~log[i].result.started)
            => log[i].outcome.kind = "raise"
    /\ \A i, j \in 1..Len(log) :
        (/\ FailureCause(log[i]) # "none"
         /\ FailureCause(log[j]) # "none"
         /\ FailureCause(log[i]) # FailureCause(log[j]))
        => log[i].outcome.exc # log[j].outcome.exc

\* The children spawned as "<binary> <runner> --help", in order.
HelpProcs(runner) ==
    SelectSeq(procs, LAMBDA p :
        Len(p.cmd) = 3 /\ p.cmd[2] = runner /\ p.cmd[3] = "--help")

\* C15: each runner's help command is spawned exactly once, at construction
\* (the first children of the program, before any consume); no consume,
\* consume_fixture or help() call spawns it again; the runner's binary is
\* the configured one and its cached help text is the stdout of that one
\* child in every later state, and help() answers that text.
C15_HelpProbedOnceAndCached ==
    /\ \A runner \in {"statetest", "blocktest"} : Len(HelpProcs(runner)) <= 1
    /\ \A i \in 1..Len(procs) :
        procs[i].by # 0 => procs[i].cmd[Len(procs[i].cmd)] # "--help"
    /\ consumer.state = "ready"
        => /\ Len(procs) >= 2
           /\ procs[1] = HelpProcs("statetest")[1]
           /\ procs[2] = HelpProcs("blocktest")[1]
           /\ \A runner \in {"statetest", "blocktest"} :
                LET probe == HelpProcs(runner)[1]
                IN  /\ probe.by = 0
                    /\ probe.started
                    /\ probe.cmd = <<Str(options.evm_bin), runner, "--help">>
                    /\ consumer[runner].binary = options.evm_bin
                    /\ consumer[runner].help_string = probe.stdout
                    /\ help(runner) = probe.stdout
           /\ help_seen.runner # None
                => help_seen.text = HelpProcs(help_seen.runner)[1].stdout

C15_Witness ==
    /\ Len(log) = 2
    /\ log[1].outcome.kind = "raise"
    /\ log[2].outcome.kind = "return"
    /\ call[1].pc = "idle"
    /\ help_seen.runner = "blocktest"
    /\ Contains(help_seen.text, <<"--run">>)
    /\ ~Contains(help("statetest"), <<"--run">>)
    /\ Len(procs) = 4

\* The calls that have their outcome: the finished ones and the one in
\* progress once it is done.
Outcomes ==
    {log[i] : i \in 1..Len(log)}
        \cup (IF call[1].pc = "done" THEN {call[1]} ELSE {})

\* Two calls with the same fixture and flags whose children behaved alike.
SameCall(a, b) ==
    /\ a.fixture_format = b.fixture_format
    /\ a.fixture_path = b.fixture_path
    /\ a.fixture_name = b.fixture_name
    /\ a.debug_output_path = b.debug_output_path
    /\ a.result = b.result

\* C16: on one consumer, whatever calls came before (failed ones included),
\* two calls with the same fixture and flags whose children behave alike
\* spawn the same command and have the same outcome, value or error with
\* its text (hence the same classification of it); between calls nothing of
\* a call is left, and the consumer holds what construction put in it and
\* no invocation result.
C16_NoStateBetweenCalls ==
    /\ \A a \in Outcomes, b \in Outcomes :
        SameCall(a, b) => /\ a.command = b.command
                          /\ a.outcome = b.outcome
    /\ call[1].pc = "idle" => call[1] = IdleCall
    /\ consumer.state = "ready"
        => consumer = GethFixtureConsumer(options.evm_bin,
                            options.evm_collect_traces,
                            procs[1].stdout, procs[2].stdout)

C16_Witness ==
    /\ Len(log) = 1
    /\ call[1].pc = "done"
    /\ log[1].fixture_format = StateFixture
    /\ log[1].debug_output_path # None
    /\ log[1].result.returncode # 0
    /\ SameCall(log[1], call[1])
    /\ IsInvocationError(call[1].outcome)
    /\ call[1].outcome = log[1].outcome

\* The outcome of a call is the one its own child's result gives, and a
\* second call with the same fixture, flags and result has the same one.
OutcomeIsOwn(c) ==
    LET cl == call[c]
        other == call[3 - c]
    IN  cl.pc = "done"
        => /\ (cl.result.started /\ cl.result.returncode # 0)
                => IsInvocationError(cl.outcome)
           /\ cl.outcome.kind = "return"
                => cl.result.started /\ cl.result.returncode = 0
           /\ (other.pc = "done" /\ SameCall(cl, other))
                => cl.outcome = other.outcome

\* The bundle in the call's debug directory is the one of its own child.
BundleIsOwn(c) ==
    LET cl == call[c]
    IN  (cl.pc = "done" /\ BundleWritten(cl))
        => LET dir == fs[cl.debug_output_path]
           IN  /\ BundlePresent(dir)
               /\ TextInt(dir["consume_direct_returncode.txt"].text)
                    = cl.result.returncode
               /\ dir["consume_direct_stdout.txt"].text = cl.result.stdout
               /\ dir["consume_direct_stderr.txt"].text = cl.result.stderr

\* C17: in every interleaving of two consume_fixture calls on one consumer,
\* the outcome of each call and the content of its debug bundle are those
\* its own child's exit code, stdout and stderr give, whatever the other
\* call does or ends with.
C17_ConcurrentCallsIsolated ==
    \A c \in CallerIds : OutcomeIsOwn(c) /\ BundleIsOwn(c)

\* The half of C17 about outcomes, on its own.
ConcurrentOutcomesIsolated == \A c \in CallerIds : OutcomeIsOwn(c)

\* C18: the state-test command line, as built and as spawned, is the
\* binary, then --debug --json --verbosity 100 when (and only when) a debug
\* directory is requested, then the subcommand statetest, then the fixture
\* path as the last argument, and nothing else.
C18_StatetestCommandOrder ==
    \A c \in CallerIds :
        LET cl == call[c]
            cmd == cl.command
            n == Len(cmd)
        IN  (cl.pc # "idle" /\ cl.fixture_format = StateFixture)
            => /\ n >= 3
               /\ cmd[1] = Str(options.evm_bin)
               /\ cmd[n - 1] = "statetest"
               /\ cmd[n] = Str(cl.fixture_path)
               /\ IF cl.debug_output_path # None
                  THEN /\ n = 7
                       /\ cmd[2] = "--debug"
                       /\ cmd[3] = "--json"
                       /\ cmd[4] = "--verbosity"
                       /\ cmd[5] = "100"
                  ELSE n = 3
               /\ \A i \in 1..Len(ProcsOf(c)) : ProcsOf(c)[i].cmd = cmd

C18_Witness ==
    \E c \in CallerIds :
        /\ call[c].pc = "done"
        /\ call[c].fixture_format = StateFixture
        /\ call[c].fixture_name = "t1"
        /\ call[c].result.started
        /\ ProcsOf(c)[1].cmd =
            <<"evm", "--debug", "--json", "--verbosity", "100", "statetest",
              "b.json">>

\* The command lines of the calls routed to a runner, with their call: as
\* built, and as handed to the child.
RoutedCommands(c) ==
    IF call[c].pc = "idle" \/ RunnerFor(call[c].fixture_format) = None
    THEN {}
    ELSE {call[c].command}
            \cup {ProcsOf(c)[i].cmd : i \in 1..Len(ProcsOf(c))}

\* C19 (as stated): every command line handed to the child has the
\* subcommand as the first argument after the binary, the options --debug
\* --json --verbosity N (when present) after the subcommand, for blocktest
\* the option --run <case-name> (when present) before the fixture path, and
\* the fixture path last.
C19_SubcommandFirst ==
    \A c \in CallerIds : \A cmd \in RoutedCommands(c) :
        LET n == Len(cmd)
        IN  /\ n >= 3
            /\ cmd[2] = RunnerFor(call[c].fixture_format)
            /\ \A i \in 1..n :
                cmd[i] \in {"--debug", "--json", "--verbosity"} => i > 2
            /\ \A i \in 1..n : cmd[i] = "--run" => i + 1 < n
            /\ cmd[n] = Str(call[c].fixture_path)

\* C19 (amended): every command line handed to the child is the binary,
\* then the options --debug --json --verbosity 100 when a debug directory
\* is requested, then the subcommand, then for blocktest the option --run
\* <case-name> when a case name is given, then the fixture path, last.
C19_OptionsThenSubcommand ==
    \A c \in CallerIds : \A cmd \in RoutedCommands(c) :
        LET cl == call[c]
            n == Len(cmd)
            k == IF cl.debug_output_path # None THEN 6 ELSE 2
            filtered == cl.fixture_format = BlockchainFixture
                            /\ Truthy(cl.fixture_name)
        IN  /\ n = IF filtered THEN k + 3 ELSE k + 1
            /\ cmd[1] = Str(options.evm_bin)
            /\ k = 6 => SubSeq(cmd, 2, 5)
                            = <<"--debug", "--json", "--verbosity", "100">>
            /\ cmd[k] = RunnerFor(cl.fixture_format)
            /\ filtered => cmd[k + 1] = "--run" /\ cmd[k + 2] = cl.fixture_name
            /\ cmd[n] = Str(cl.fixture_path)

C19_Witness ==
    \E c \in CallerIds :
        /\ call[c].pc = "done"
        /\ call[c].fixture_format = BlockchainFixture
        /\ call[c].result.started
        /\ call[c].result.returncode = 0
        /\ ProcsOf(c)[1].cmd =
            <<"evm", "--debug", "--json", "--verbosity", "100", "blocktest",
              "--run", "t1", "b.json">>

\* C20: a fixture read from stdin is in a file of a temporary directory,
\* holding one object with exactly that case under its id, from before its
\* path is handed to consume_fixture until the test has finished: the file
\* is there in every step of the call, the bundle's fixture copy is the
\* text of that file, and the directory is removed only after the call has
\* returned or raised; a fixture of the fixture directory gets no temporary
\* file; the copy never fails for a missing file.
C20_StdinFixtureMaterialized ==
    LET cl == call[1]
        stdin == test.pc # "none" /\ test.source = "stdin"
    IN  /\ cl.pc # "idle"
            => /\ test.pc \in {"yielded", "torn down"}
               /\ cl.fixture_path = test.fixture_path
               /\ cl.fixture_name = test.id
        /\ cl.pc \in {"built", "ran", "dumped"} => test.pc = "yielded"
        /\ (stdin /\ test.pc = "yielded")
            => /\ tmp.state = "exists"
               /\ tmp.path = test.fixture_path
               /\ test.fixture_path \notin Paths
               /\ json_loads(tmp.text).ok
               /\ json_loads(tmp.text).val =
                    PyDict(<< <<Quote(test.id), json_loads(test.fixture).val>> >>)
               /\ BundleWritten(cl)
                    => /\ fs[cl.debug_output_path]["fixtures.json"].present
                       /\ fs[cl.debug_output_path]["fixtures.json"].text
                            = tmp.text
        /\ tmp.state = "removed"
            => /\ stdin
               /\ test.pc = "torn down"
               /\ cl.pc = "done"
        /\ (test.pc # "none" /\ test.source # "stdin") => tmp = NoTemp
        /\ cl.outcome.exc # "FileNotFoundError"

C20_Witness ==
    /\ test.pc = "torn down"
    /\ test.source = "stdin"
    /\ test.id = "a/b"
    /\ tmp.state = "removed"
    /\ call[1].pc = "done"
    /\ call[1].fixture_path = "tmp/a_b.json"
    /\ BundleWritten(call[1])
    /\ call[1].outcome.kind = "raise"
    /\ fs[call[1].debug_output_path]["fixtures.json"].text =
        <<"{", "\"a/b\"", ":", "{", "\"pass\"", ":", "true", "}", "}">>

\* The entries in table order, as index pairs i before j.
EntryPairs ==
    {p \in (1..Len(mapping_data)) \X (1..Len(mapping_data)) : p[1] < p[2]}

RunnerOutcome(cl, examined) ==
    IF ~cl.result.started THEN SpawnFailure
    ELSE IF cl.debug_output_path # None /\ ~FileExists(cl.fixture_path)
    THEN FixtureNotFound(cl.fixture_path)
    ELSE examined

\* C22: consume_fixture hands a state-test fixture to the state runner with
\* (path, debug directory) and a chain-test fixture to the chain runner with
\* (path, case name, debug directory), and its outcome is the outcome of
\* that runner; the case name given with a state-test fixture is in neither
\* the command nor the outcome.
C22_RoutesToRunner ==
    LET cl == call[1]
        state_command ==
            StatetestCommand(consumer.statetest.binary, cl.fixture_path,
                             cl.debug_output_path)
        chain_command ==
            BlocktestCommand(consumer.blocktest.binary, cl.fixture_path,
                             cl.fixture_name, cl.debug_output_path)
    IN  /\ (cl.fixture_format = StateFixture /\ cl.pc # "idle")
            => /\ cl.command = state_command
               /\ \A k \in DOMAIN cl.command : cl.command[k] # "--run"
               /\ cl.pc = "done"
                    => cl.outcome = RunnerOutcome(cl,
                            StatetestOutcome(state_command, cl.result))
        /\ (cl.fixture_format = BlockchainFixture /\ cl.pc # "idle")
            => /\ cl.command = chain_command
               /\ cl.pc = "done"
                    => cl.outcome = RunnerOutcome(cl,
                            BlocktestOutcome(chain_command, cl.result))

C22_Witness ==
    /\ call[1].pc = "done"
    /\ call[1].fixture_format = StateFixture
    /\ call[1].fixture_name = "t1"
    /\ call[1].outcome.kind = "return"
    /\ call[1].command = <<"evm", "statetest", "a.json">>

\* C26: the fixture path is the last element of every command the two
\* runners build; so the script of the bundle is the
\* spawned command with the fixture path, and nothing else, replaced by the
\* path of the bundle's copy of the fixture: the debug flags and the --run
\* filter stay where they are.
C26_FixturePathLast ==
    LET cl == call[1]
        cmd == cl.command
        n == Len(cmd)
    IN  (cl.pc # "idle" /\ RunnerFor(cl.fixture_format) # None)
        => /\ n >= 3
           /\ cmd[n] = Str(cl.fixture_path)
           /\ BundleWritten(cl)
                => LET args == ScriptCommand(
                            fs[cl.debug_output_path]["consume_direct.sh"].text)
                   IN  /\ ProcsOf(1)[1].cmd = cmd
                       /\ args = [cmd EXCEPT
                                    ![n] = DebugFixturePath(cl.debug_output_path)]
                       /\ SubSeq(args, 2, 5) = DebugFlags
                       /\ Truthy(cl.fixture_name)
                                /\ cl.fixture_format = BlockchainFixture
                            => SubSeq(args, n - 2, n - 1)
                                    = <<"--run", cl.fixture_name>>

C26_Witness ==
    /\ call[1].pc = "done"
    /\ call[1].fixture_format = StateFixture
    /\ call[1].fixture_path = "b.json"
    /\ BundleWritten(call[1])
    /\ ProcsOf(1)[1].cmd = <<"evm", "--debug", "--json", "--verbosity", "100",
                             "statetest", "b.json">>
    /\ ScriptCommand(fs[call[1].debug_output_path]["consume_direct.sh"].text)
        = <<"evm", "--debug", "--json", "--verbosity", "100", "statetest",
            "dump/fixtures.json">>

\* The character a "/" or any other character of a name becomes.
Dashed(ch) == IF ch = "/" THEN "-" ELSE ch

\* C23: test_dump_dir returns no directory without a base directory; with
\* one it returns base/stem when --run is not advertised and
\* base/stem/name' when it is, where name' is the name with "-" for every
\* "/", and for a name of more than 142 characters its first 70 characters,
\* "..." and its last 70 characters; name' has no "/" and at most 143
\* characters.
C23_DumpDirOfCase ==
    \A i \in 1..Len(dump_dirs) :
        LET name == dump_dirs[i].fixture_name
            file == dump_dirs[i].fixture_path.name
            dir == dump_dirs[i].dir
            n == Len(name)
        IN  /\ base_dump_dir = None => dir = NoDir
            /\ base_dump_dir # None =>
                /\ Len(dir) = IF run_single_test THEN 3 ELSE 2
                /\ dir[1] = <<base_dump_dir>>
                /\ dir[2] \o <<file[Len(file)]>> = file
                /\ run_single_test =>
                    /\ Len(dir[3]) <= 143
                    /\ \A k \in 1..Len(dir[3]) : dir[3][k] # "/"
                    /\ n <= 142 =>
                        /\ Len(dir[3]) = n
                        /\ \A k \in 1..n : dir[3][k] = Dashed(name[k])
                    /\ n > 142 =>
                        /\ Len(dir[3]) = 143
                        /\ \A k \in 1..70 : dir[3][k] = Dashed(name[k])
                        /\ \A k \in 71..73 : dir[3][k] = "."
                        /\ \A k \in 74..143 :
                            dir[3][k] = Dashed(name[n - 143 + k])

C23_Witness ==
    /\ run_single_test
    /\ base_dump_dir = "dumps"
    /\ Len(dump_dirs) = 2
    /\ Len(dump_dirs[1].fixture_name) = 142
    /\ Len(dump_dirs[1].dir[3]) = 142
    /\ dump_dirs[1].dir[3][71] = "b"
    /\ Len(dump_dirs[2].fixture_name) = 143
    /\ dump_dirs[2].fixture_name[72] = "/"
    /\ dump_dirs[2].fixture_name[1] = "a"
    /\ Len(dump_dirs[2].dir[3]) = 143
    /\ dump_dirs[2].dir[2] = <<"a", ".tar">>

\* C27 (as stated): with a base dump directory and --run advertised, two
\* test cases that differ in the fixture file or in the fixture name never
\* get the same dump directory.
C27_DistinctCasesDistinctDirs ==
    (base_dump_dir # None /\ run_single_test)
        => \A i, j \in 1..Len(dump_dirs) :
            (\/ dump_dirs[i].fixture_path # dump_dirs[j].fixture_path
             \/ dump_dirs[i].fixture_name # dump_dirs[j].fixture_name)
                => dump_dirs[i].dir # dump_dirs[j].dir

\* C24 (as stated): after pytest_configure of the execute plugin, a session
\* with neither --no-html nor --html has the default report path, and a
\* session with --no-html and no --html has no report path.
C24_HtmlReportUnlessDisabled ==
    execute_config.state \in {"configured", "exited"}
        => /\ (~execute_config.disable_html /\ execute_config.html_given = None)
                => execute_config.htmlpath = default_html_report_file_path
           /\ (execute_config.disable_html /\ execute_config.html_given = None)
                => execute_config.htmlpath = None

\* The refund transactions built for an account.
RefundsOf(eoa) ==
    SelectSeq(execute_test.refund_txs, LAMBDA tx : tx.sender = eoa)

\* The places of the rpc calls of one kind.
RpcCalls(op) ==
    {k \in 1..Len(execute_test.rpc) : execute_test.rpc[k].op = op}

\* C25: after a test, passed or failed, the teardown builds one refund to
\* the sender for every funded account whose balance is at least
\* 21000 * default_gas_price, of the balance less that cost, and none for an
\* account with less; no refund has a negative value; the batch is sent
\* once, after every balance was read.
C25_RefundsAfterTest ==
    LET price == execute_config.default_gas_price
        read == execute_test.balances
    IN  /\ \A eoa \in 1..Len(read) :
            IF read[eoa] >= 21000 * price
            THEN RefundsOf(eoa)
                    = << [ sender |-> eoa, to |-> 0, gas_limit |-> 21000,
                           gas_price |-> price,
                           value |-> read[eoa] - 21000 * price ] >>
            ELSE RefundsOf(eoa) = <<>>
        /\ \A k \in 1..Len(execute_test.refund_txs) :
            /\ execute_test.refund_txs[k].value >= 0
            /\ execute_test.refund_txs[k].sender \in 1..Len(read)
        /\ Cardinality(RpcCalls("send_wait_transactions")) <= 1
        /\ \A s \in RpcCalls("send_wait_transactions") :
            /\ Len(read) = execute_test.funded_eoa
            /\ execute_test.rpc[s].of = Len(execute_test.refund_txs)
            /\ \A eoa \in 1..execute_test.funded_eoa :
                \E k \in 1..(s - 1) :
                    execute_test.rpc[k] = [op |-> "get_balance", of |-> eoa]
        /\ execute_test.pc = "done"
            => /\ execute_test.outcome \in {"passed", "failed"}
               /\ Cardinality(RpcCalls("send_wait_transactions")) = 1

C25_Witness ==
    /\ execute_test.pc = "done"
    /\ execute_test.outcome = "failed"
    /\ execute_config.default_gas_price = 2
    /\ execute_test.balances = <<41999, 42001>>
    /\ Len(execute_test.refund_txs) = 1
    /\ execute_test.refund_txs[1].sender = 2
    /\ execute_test.refund_txs[1].value = 1

\* The calls of a scenario, outermost first.
CallChain(s) ==
    IF s.second_call = "NOOP" THEN <<s.first_call>>
    ELSE <<s.first_call, s.second_call>>

\* A balance given to a contract, alone or with the value of one call.
AssignedBalances ==
    {b + v : b \in {root_contract_balance, scenario_contract_balance,
                    sub_contract_balance, program_selfbalance},
             v \in {0, root_call_value, first_call_value, second_call_value}}

\* C29: in every generated scenario of one or two legacy calls, has_static
\* is true exactly when a call of the chain is STATICCALL, the expected
\* call_value is 0 whenever the first or the innermost call is STATICCALL,
\* and the expected selfbalance is one of the assigned balances, never the
\* default 0 of _compute_selfbalance.
C29_ScenarioEnvironments ==
    \A k \in 1..Len(scenario_gen.list) :
        LET s == scenario_gen.list[k]
            chain == CallChain(s)
        IN  /\ \A c \in 1..Len(chain) : chain[c] \in LegacyCalls
            /\ s.env.has_static
                <=> \E c \in 1..Len(chain) : chain[c] = "STATICCALL"
            /\ (chain[1] = "STATICCALL" \/ chain[Len(chain)] = "STATICCALL")
                => s.env.call_value = 0
            /\ s.env.selfbalance # 0
            /\ s.env.selfbalance \in AssignedBalances

C29_Witness ==
    /\ scenario_gen.state = "returned"
    /\ Len(scenario_gen.list) = 20
    /\ \E k \in 1..Len(scenario_gen.list) :
        /\ scenario_gen.list[k].first_call = "CALL"
        /\ scenario_gen.list[k].second_call = "DELEGATECALL"
        /\ scenario_gen.list[k].env.selfbalance = 114
    /\ \E k \in 1..Len(scenario_gen.list) :
        /\ scenario_gen.list[k].first_call = "STATICCALL"
        /\ scenario_gen.list[k].second_call = "CALLCODE"
        /\ scenario_gen.list[k].env.call_value = 0
        /\ scenario_gen.list[k].env.has_static
    /\ \E k \in 1..Len(scenario_gen.list) :
        /\ scenario_gen.list[k].first_call = "STATICCALL"
        /\ scenario_gen.list[k].second_call = "NOOP"

\* C30: fake_exponential(factor, numerator, denominator) with factor >= 0,
\* numerator >= 0 and denominator >= 1 returns: once denominator * i is
\* over the numerator each round makes the accumulator smaller, and it
\* reaches 0; so get_fee returns for every excess >= 0, and get_fee(0) is
\* MIN_WITHDRAWAL_REQUEST_FEE.
C30_FakeExponentialTerminates ==
    /\ <>(fee.pc = "returned")
    /\ [][ (/\ fee.pc = "loop"
            /\ fee'.pc = "loop"
            /\ fee.denominator * fee.i > fee.numerator)
           => fee'.numerator_accumulator < fee.numerator_accumulator ]_vars
    /\ [](fee.pc = "returned" => fee.numerator_accumulator = 0)
    /\ []((fee.pc = "returned" /\ fee.entry = "get_fee" /\ fee.excess = 0)
            => fee.result = MIN_WITHDRAWAL_REQUEST_FEE)

C30_Witness ==
    /\ fee.pc = "returned"
    /\ fee.entry = "fake_exponential"
    /\ fee.factor = 2
    /\ fee.numerator = 5
    /\ fee.denominator = 1
    /\ fee.i > 6
    /\ fee.result > 2

=============================================================================
